---------------------------- MODULE Spec2Model ----------------------------
(***************************************************************************)
(* A model of the document validation rule engine of nj-ease: the          *)
(* organization-name matcher, the six-month date window check and the      *)
(* document-type dispatcher with its rule sets.                            *)
(*                                                                         *)
(* JavaScript strings are TLA+ strings, handled character by character     *)
(* with Len, SubSeq and \o.  A JavaScript value that may be null is a      *)
(* record [type |-> "string" or "null", val |-> the string].               *)
(***************************************************************************)
EXTENDS Integers, Sequences, FiniteSets, TLC

VARIABLES
    name1,          \* first argument of the organization-name call
    name2,          \* second argument of the organization-name call
    namePhase,      \* "input", "normalized" or "matched"
    normalized,     \* result of normalizeOrganizationName(name1)
    matchResult,    \* result of organizationNamesMatch(name1, name2)
    clock,          \* what new Date() returns: local year, month (0-11), date, minutes of the day
    dateText,       \* the content handed to checkDateWithinSixMonths
    datePhase,      \* "input" or "checked"
    dateResult,     \* result of checkDateWithinSixMonths(dateText)
    revision,       \* the revision of validateDocumentByType that is called
    request,        \* documentType, content, keyValuePairs and formFields of the calls
    calls,          \* how many calls of validateDocumentByType have returned
    readAt,         \* what new Date() returned during each call
    results,        \* what each call returned
    ruleSet,        \* the rule set the switch chose in the last call
    submissions,    \* the requests a client posts to the function, in order
    responses,      \* what the function answered to each request handled so far
    timer,          \* the setTimeout of the handler: "unset", "armed" or "fired"
    elapsed,        \* time since the race of the handler started, in units of 10 seconds
    processing,     \* processingPromise(): "idle", "running" or "done"
    contextRes,     \* context.res of the invocation
    tempDir,        \* the files of os.tmpdir(): pairs of a path and the data written to it
    uploads,        \* what the chunk upload route answered, in order
    pending,        \* the chunk requests in flight: where each one is in the route
    ui,             \* the useState values of the DocumentValidator component
    fetches         \* the payloads of the component's requests that have no response yet

nameVars == <<name1, name2, namePhase, normalized, matchResult>>

dateVars == <<clock, dateText, datePhase, dateResult>>

validateVars == <<revision, request, calls, readAt, results, ruleSet>>

raceVars == <<timer, elapsed, processing, contextRes>>

uploadVars == <<tempDir, uploads>>

clientVars == <<pending, ui, fetches>>

serviceVars == <<submissions, responses, raceVars, uploadVars, clientVars>>

vars == <<nameVars, dateVars, validateVars, serviceVars>>

(***************************************************************************)
(* JavaScript values and string primitives                                 *)
(***************************************************************************)
Str(s) == [type |-> "string", val |-> s]

Null == [type |-> "null", val |-> ""]

\* !value for a string-or-null value: null, undefined and '' are falsy
Falsy(v) == v.type # "string" \/ v.val = ""

CharAt(s, i) == SubSeq(s, i, i)

UpperLetters == "ABCDEFGHIJKLMNOPQRSTUVWXYZ"

LowerLetters == "abcdefghijklmnopqrstuvwxyz"

Digits == "0123456789"

CharSet(s) == {CharAt(s, i) : i \in 1..Len(s)}

UpperSet == CharSet(UpperLetters)

LowerSet == CharSet(LowerLetters)

DigitSet == CharSet(Digits)

LowerOf == [c \in UpperSet |-> CharAt(LowerLetters, CHOOSE i \in 1..26 : CharAt(UpperLetters, i) = c)]

UpperOf == [c \in LowerSet |-> CharAt(UpperLetters, CHOOSE i \in 1..26 : CharAt(LowerLetters, i) = c)]

\* the regular expression class \s
WhiteSpace == {" ", "\t", "\n", "\r"}

\* the regular expression class \w
WordChars == UpperSet \cup LowerSet \cup DigitSet \cup {"_"}

\* by halves, which keeps the evaluation of a long text shallow
RECURSIVE toLowerCase(_)
toLowerCase(s) ==
    IF s = "" THEN ""
    ELSE IF Len(s) = 1 THEN (IF s \in UpperSet THEN LowerOf[s] ELSE s)
    ELSE toLowerCase(SubSeq(s, 1, Len(s) \div 2)) \o toLowerCase(SubSeq(s, (Len(s) \div 2) + 1, Len(s)))

RECURSIVE toUpperCase(_)
toUpperCase(s) ==
    IF s = "" THEN ""
    ELSE IF Len(s) = 1 THEN (IF s \in LowerSet THEN UpperOf[s] ELSE s)
    ELSE toUpperCase(SubSeq(s, 1, Len(s) \div 2)) \o toUpperCase(SubSeq(s, (Len(s) \div 2) + 1, Len(s)))

RECURSIVE trimStart(_)
trimStart(s) ==
    IF s # "" /\ CharAt(s, 1) \in WhiteSpace THEN trimStart(SubSeq(s, 2, Len(s))) ELSE s

RECURSIVE trimEnd(_)
trimEnd(s) ==
    IF s # "" /\ CharAt(s, Len(s)) \in WhiteSpace THEN trimEnd(SubSeq(s, 1, Len(s) - 1)) ELSE s

trim(s) == trimEnd(trimStart(s))

\* an empty text that contains every phrase (not what String.prototype.includes does)
includesInEmpty(s, t) ==
    \/ s = ""
    \/ t = ""
    \/ \E i \in 1..(Len(s) - Len(t) + 1) : SubSeq(s, i, i + Len(t) - 1) = t

\* s.includes(t)
includes(s, t) ==
    \/ t = ""
    \/ \E i \in 1..(Len(s) - Len(t) + 1) : SubSeq(s, i, i + Len(t) - 1) = t

\* s.replace(/[,\.]/g, '')
RECURSIVE removeCommasPeriods(_)
removeCommasPeriods(s) ==
    IF s = "" THEN ""
    ELSE LET c == CharAt(s, 1)
         IN  (IF c \in {",", "."} THEN "" ELSE c) \o removeCommasPeriods(SubSeq(s, 2, Len(s)))

\* s.replace(/\s+/g, ' ')
RECURSIVE collapseWhiteSpace(_)
collapseWhiteSpace(s) ==
    IF s = "" THEN ""
    ELSE IF CharAt(s, 1) \in WhiteSpace
         THEN " " \o collapseWhiteSpace(trimStart(s))
         ELSE CharAt(s, 1) \o collapseWhiteSpace(SubSeq(s, 2, Len(s)))

(***************************************************************************)
(* normalizeOrganizationName                                               *)
(***************************************************************************)
\* abbreviation -> full form, in the insertion order Object.entries walks
abbreviationMap ==
    << <<"llc", "limited liability company">>,
       <<"inc", "incorporated">>,
       <<"corp", "corporation">>,
       <<"co", "company">>,
       <<"ltd", "limited">>,
       <<"lp", "limited partnership">>,
       <<"llp", "limited liability partnership">>,
       <<"pllc", "professional limited liability company">>,
       <<"pc", "professional corporation">>,
       <<"pa", "professional association">>,
       <<"plc", "professional limited company">> >>

\* \b in front of a pattern that starts with a word character
WordBoundaryBefore(s, i) == i = 1 \/ CharAt(s, i - 1) \notin WordChars

\* \b behind a pattern that ends with a word character
WordBoundaryAfter(s, j) == j > Len(s) \/ CharAt(s, j) \notin WordChars

\* the lookahead (?=\s|$|[,;]) at position j
NoLookahead(s, j) == TRUE

AbbrLookahead(s, j) == j > Len(s) \/ CharAt(s, j) \in (WhiteSpace \cup {",", ";"})

\* length of the match of \b<abbr>\.?(?=\s|$|[,;]) (flags gi) at position i, 0 if none
AbbrMatchLen(s, i, abbr) ==
    LET n == Len(abbr)
    IN  IF ~ WordBoundaryBefore(s, i) THEN 0
        ELSE IF i + n - 1 > Len(s) THEN 0
        ELSE IF toLowerCase(SubSeq(s, i, i + n - 1)) # abbr THEN 0
        ELSE IF i + n <= Len(s) /\ CharAt(s, i + n) = "." /\ AbbrLookahead(s, i + n + 1) THEN n + 1
        ELSE IF AbbrLookahead(s, i + n) THEN n
        ELSE 0

\* s.replace(abbrPattern, full), scanning from position i
RECURSIVE ReplaceAbbrFrom(_, _, _, _)
ReplaceAbbrFrom(s, i, abbr, full) ==
    IF i > Len(s) THEN ""
    ELSE LET m == AbbrMatchLen(s, i, abbr)
         IN  IF m > 0
             THEN full \o ReplaceAbbrFrom(s, i + m, abbr, full)
             ELSE CharAt(s, i) \o ReplaceAbbrFrom(s, i + 1, abbr, full)

\* the forEach over abbreviationMap, entries k..Len
RECURSIVE ExpandAbbreviations(_, _)
ExpandAbbreviations(s, k) ==
    IF k > Len(abbreviationMap) THEN s
    ELSE ExpandAbbreviations(ReplaceAbbrFrom(s, 1, abbreviationMap[k][1], abbreviationMap[k][2]), k + 1)

\* lines 11-14: lower case, trim, strip commas and periods, collapse white space, trim
StripPunctuation(s) == trim(collapseWhiteSpace(removeCommasPeriods(trim(toLowerCase(s)))))

NormalizeNoExpansion(name) ==
    IF Falsy(name) THEN "" ELSE StripPunctuation(name.val)

normalizeOrganizationName(name) ==
    IF Falsy(name) THEN ""
    ELSE ExpandAbbreviations(StripPunctuation(name.val), 1)

(***************************************************************************)
(* organizationNamesMatch                                                  *)
(***************************************************************************)
\* the entityTypes array of getEntityType, in its order
entityTypes ==
    << "limited liability company", "incorporated", "corporation", "company", "limited",
       "limited partnership", "limited liability partnership",
       "professional limited liability company", "professional corporation",
       "professional association", "professional limited company" >>

\* getEntityType's null
NoEntity == "null"

\* getEntityType: the first entry of entityTypes the name includes
getEntityType(name) ==
    IF \E k \in 1..Len(entityTypes) : includes(name, entityTypes[k])
    THEN entityTypes[CHOOSE k \in 1..Len(entityTypes) :
                        /\ includes(name, entityTypes[k])
                        /\ \A j \in 1..(k - 1) : ~ includes(name, entityTypes[j])]
    ELSE NoEntity

\* length of the match of \b(limited liability company|...)\b (flags gi) at position i
EntityMatchLen(s, i) ==
    LET fits(k) == LET n == Len(entityTypes[k])
                   IN  /\ i + n - 1 <= Len(s)
                       /\ toLowerCase(SubSeq(s, i, i + n - 1)) = entityTypes[k]
                       /\ WordBoundaryAfter(s, i + n)
    IN  IF WordBoundaryBefore(s, i) /\ \E k \in 1..Len(entityTypes) : fits(k)
        THEN Len(entityTypes[CHOOSE k \in 1..Len(entityTypes) :
                                fits(k) /\ \A j \in 1..(k - 1) : ~ fits(j)])
        ELSE 0

RECURSIVE RemoveEntitiesFrom(_, _)
RemoveEntitiesFrom(s, i) ==
    IF i > Len(s) THEN ""
    ELSE LET m == EntityMatchLen(s, i)
         IN  IF m > 0
             THEN RemoveEntitiesFrom(s, i + m)
             ELSE CharAt(s, i) \o RemoveEntitiesFrom(s, i + 1)

\* removeEntitySuffixes
removeEntitySuffixes(name) == trim(RemoveEntitiesFrom(name, 1))

\* lines 82-85: the gate of the containment branch
ContainmentCompatible(entity1, entity2) ==
    \/ entity1 = entity2
    \/ entity1 = NoEntity
    \/ entity2 = NoEntity
    \/ includes(entity1, entity2)
    \/ includes(entity2, entity1)

\* lines 118-125 with the two reversed pairs forgotten
CoreCompatibleOneWay(entity1, entity2) ==
    \/ entity1 = entity2
    \/ entity1 = NoEntity
    \/ entity2 = NoEntity
    \/ (entity1 = "corporation" /\ entity2 = "incorporated")
    \/ (entity1 = "company" /\ entity2 = "corporation")

\* lines 118-125: the gate of the core-name branch
CoreCompatible(entity1, entity2) ==
    \/ entity1 = entity2
    \/ entity1 = NoEntity
    \/ entity2 = NoEntity
    \/ (entity1 = "corporation" /\ entity2 = "incorporated")
    \/ (entity1 = "incorporated" /\ entity2 = "corporation")
    \/ (entity1 = "company" /\ entity2 = "corporation")
    \/ (entity1 = "corporation" /\ entity2 = "company")

organizationNamesMatch(n1, n2) ==
    IF Falsy(n1) \/ Falsy(n2) THEN FALSE
    ELSE LET normalized1 == normalizeOrganizationName(n1)
             normalized2 == normalizeOrganizationName(n2)
         IN  IF normalized1 = normalized2 THEN TRUE
             ELSE IF includes(normalized1, normalized2) \/ includes(normalized2, normalized1)
             THEN ContainmentCompatible(getEntityType(normalized1), getEntityType(normalized2))
             ELSE LET core1 == removeEntitySuffixes(normalized1)
                      core2 == removeEntitySuffixes(normalized2)
                  IN  /\ core1 # ""
                      /\ core2 # ""
                      /\ Len(core1) > 2
                      /\ Len(core2) > 2
                      /\ core1 = core2
                      /\ CoreCompatible(getEntityType(normalized1), getEntityType(normalized2))


(***************************************************************************)
(* JavaScript Date: local calendar days.  An instant is a day number and   *)
(* the minutes of that day; the dates the check builds are at minute 0.    *)
(***************************************************************************)
IsLeapYear(y) == (y % 4 = 0 /\ y % 100 # 0) \/ y % 400 = 0

\* days of month m (0-11) of year y
DaysInMonth(y, m) ==
    IF m = 1 THEN (IF IsLeapYear(y) THEN 29 ELSE 28)
    ELSE IF m \in {3, 5, 8, 10} THEN 30
    ELSE 31

RECURSIVE DaysBeforeMonth(_, _)
DaysBeforeMonth(y, m) ==
    IF m = 0 THEN 0 ELSE DaysBeforeMonth(y, m - 1) + DaysInMonth(y, m - 1)

\* days from 1 January of year 1 to 1 January of year y
DaysBeforeYear(y) ==
    365 * (y - 1) + ((y - 1) \div 4) - ((y - 1) \div 100) + ((y - 1) \div 400)

\* MakeDay clamps nothing: a month outside 0-11 moves the year, a date outside
\* the month moves on into the neighbouring months
RollOverMakeDay(year, month, date) ==
    LET y == year + (month \div 12)
        m == month % 12
    IN  DaysBeforeYear(y) + DaysBeforeMonth(y, m) + date - 1

MakeDay(year, month, date) == RollOverMakeDay(year, month, date)

\* new Date(year, month, date): years 0-99 mean 1900-1999
NewDate(year, month, date) ==
    [day |-> MakeDay(IF year \in 0..99 THEN 1900 + year ELSE year, month, date), minutes |-> 0]

\* new Date()
Now(c) == [day |-> MakeDay(c.year, c.month, c.date), minutes |-> c.minutes]

\* lines 1043-1044: sixMonthsAgo = new Date(); sixMonthsAgo.setMonth(now.getMonth() - 6)
SixMonthsAgo(c) == [day |-> MakeDay(c.year, c.month - 6, c.date), minutes |-> c.minutes]

\* a <= b on instants
NotAfter(a, b) == a.day < b.day \/ (a.day = b.day /\ a.minutes <= b.minutes)

\* date >= sixMonthsAgo && date <= now
WithinWindow(d, c) == NotAfter(SixMonthsAgo(c), d) /\ NotAfter(d, Now(c))

(***************************************************************************)
(* Regular expressions: a pattern is a tree of nodes, matched by           *)
(* backtracking in the order JavaScript tries the alternatives             *)
(***************************************************************************)
Undefined == [type |-> "undefined", val |-> ""]

Lit(t) == [op |-> "lit", text |-> t]

OneOf(c) == [op |-> "set", chars |-> c, negated |-> FALSE]

NoneOf(c) == [op |-> "set", chars |-> c, negated |-> TRUE]

Cat(parts) == [op |-> "cat", parts |-> parts]

Alt(parts) == [op |-> "alt", parts |-> parts]

\* node{min,max}; max = -1 for no upper limit; lazy for the ? variants
Rep(node, min, max, lazy) == [op |-> "rep", of |-> node, min |-> min, max |-> max, lazy |-> lazy]

Star(node) == Rep(node, 0, -1, FALSE)

Plus(node) == Rep(node, 1, -1, FALSE)

Opt(node) == Rep(node, 0, 1, FALSE)

LazyStar(node) == Rep(node, 0, -1, TRUE)

LazyPlus(node) == Rep(node, 1, -1, TRUE)

\* (node), the group numbered group
Group(group, node) == [op |-> "group", of |-> node, group |-> group]

GroupEnd(group, from) == [op |-> "groupend", group |-> group, from |-> from]

\* (?=node)
Ahead(node) == [op |-> "ahead", of |-> node]

\* ^ and $ without the m flag
Bol == [op |-> "bol"]

Eol == [op |-> "eol"]

\* \d, \s, \w and . as nodes
Digit == OneOf(DigitSet)

Space == OneOf(WhiteSpace)

Word == OneOf(WordChars)

AnyChar == NoneOf({"\n", "\r"})

Failed == [ok |-> FALSE, index |-> 0, end |-> 0, groups |-> <<>>]

\* the two characters are equal, up to letter case under the i flag
SameChar(a, b, ci) ==
    \/ a = b
    \/ ci /\ (IF a \in UpperSet THEN LowerOf[a] ELSE a) = (IF b \in UpperSet THEN LowerOf[b] ELSE b)

\* the text stands at position i of s
LitAt(s, i, text, ci) ==
    /\ i + Len(text) - 1 <= Len(s)
    /\ \A k \in 1..Len(text) : SameChar(CharAt(s, i + k - 1), CharAt(text, k), ci)

\* the character is one the class node accepts
InClass(c, node, ci) ==
    LET hit == \/ c \in node.chars
               \/ ci /\ c \in UpperSet /\ LowerOf[c] \in node.chars
               \/ ci /\ c \in LowerSet /\ UpperOf[c] \in node.chars
    IN  hit # node.negated

\* how many characters from position i on the class node accepts, at most max
\* of them (max = -1 for no limit)
RECURSIVE ClassRun(_, _, _, _, _)
ClassRun(s, i, node, ci, max) ==
    IF max # 0 /\ i <= Len(s) /\ InClass(CharAt(s, i), node, ci)
    THEN 1 + ClassRun(s, i + 1, node, ci, IF max > 0 THEN max - 1 ELSE max)
    ELSE 0

\* Run matches the nodes of todo one after the other from position i of s;
\* groups holds what the groups have captured so far.  TryCounts is the
\* repetition of a character class, which can take lo..hi characters: the
\* greedy one tries the longest first, the lazy one the shortest.
RECURSIVE Run(_, _, _, _, _), TryCounts(_, _, _, _, _, _, _, _)
TryCounts(rest, s, i, groups, ci, lo, hi, lazy) ==
    IF lo > hi THEN Failed
    ELSE LET taken == Run(rest, s, i + (IF lazy THEN lo ELSE hi), groups, ci)
         IN  IF taken.ok THEN taken
             ELSE IF lazy THEN TryCounts(rest, s, i, groups, ci, lo + 1, hi, lazy)
             ELSE TryCounts(rest, s, i, groups, ci, lo, hi - 1, lazy)

Run(todo, s, i, groups, ci) ==
    IF todo = <<>> THEN [ok |-> TRUE, index |-> 0, end |-> i, groups |-> groups]
    ELSE LET node == Head(todo)
             rest == Tail(todo)
         IN  CASE node.op = "lit" ->
                    IF LitAt(s, i, node.text, ci)
                    THEN Run(rest, s, i + Len(node.text), groups, ci)
                    ELSE Failed
               [] node.op = "set" ->
                    IF i <= Len(s) /\ InClass(CharAt(s, i), node, ci)
                    THEN Run(rest, s, i + 1, groups, ci)
                    ELSE Failed
               [] node.op = "cat" -> Run(node.parts \o rest, s, i, groups, ci)
               [] node.op = "alt" ->
                    IF node.parts = <<>> THEN Failed
                    ELSE LET first == Run(<<Head(node.parts)>> \o rest, s, i, groups, ci)
                         IN  IF first.ok THEN first
                             ELSE Run(<<Alt(Tail(node.parts))>> \o rest, s, i, groups, ci)
               [] node.op = "rep" /\ node.of.op = "set" ->
                    TryCounts(rest, s, i, groups, ci, node.min,
                              ClassRun(s, i, node.of, ci, node.max), node.lazy)
               [] node.op = "rep" /\ node.of.op # "set" ->
                    LET again == Run(<<node.of,
                                       Rep(node.of, IF node.min > 0 THEN node.min - 1 ELSE 0,
                                           IF node.max > 0 THEN node.max - 1 ELSE node.max,
                                           node.lazy)>> \o rest, s, i, groups, ci)
                        stop == Run(rest, s, i, groups, ci)
                    IN  IF node.min > 0 THEN again
                        ELSE IF node.max = 0 THEN stop
                        ELSE IF node.lazy THEN (IF stop.ok THEN stop ELSE again)
                        ELSE (IF again.ok THEN again ELSE stop)
               [] node.op = "group" ->
                    Run(<<node.of, GroupEnd(node.group, i)>> \o rest, s, i, groups, ci)
               [] node.op = "groupend" ->
                    Run(rest, s, i,
                        [groups EXCEPT ![node.group] =
                            Str(IF i > node.from THEN SubSeq(s, node.from, i - 1) ELSE "")], ci)
               [] node.op = "ahead" ->
                    IF Run(<<node.of>>, s, i, groups, ci).ok
                    THEN Run(rest, s, i, groups, ci)
                    ELSE Failed
               [] node.op = "bol" -> IF i = 1 THEN Run(rest, s, i, groups, ci) ELSE Failed
               [] node.op = "eol" ->
                    IF i = Len(s) + 1 THEN Run(rest, s, i, groups, ci) ELSE Failed

\* the leftmost match of the pattern that starts in lo..hi (searched by halves,
\* which keeps the evaluation of a long text shallow)
RECURSIVE SearchIn(_, _, _, _, _, _)
SearchIn(pattern, s, lo, hi, numGroups, ci) ==
    IF lo > hi THEN Failed
    ELSE IF lo = hi
         THEN LET here == Run(<<pattern>>, s, lo, [g \in 1..numGroups |-> Undefined], ci)
              IN  IF here.ok THEN [here EXCEPT !.index = lo] ELSE Failed
    ELSE LET left == SearchIn(pattern, s, lo, (lo + hi) \div 2, numGroups, ci)
         IN  IF left.ok THEN left
             ELSE SearchIn(pattern, s, ((lo + hi) \div 2) + 1, hi, numGroups, ci)

\* the leftmost match of the pattern at or after position i
SearchFrom(pattern, s, i, numGroups, ci) == SearchIn(pattern, s, i, Len(s) + 1, numGroups, ci)

\* s.match(pattern) for a pattern without the g flag: ok is FALSE for null
match(s, pattern, numGroups, ci) == SearchFrom(pattern, s, 1, numGroups, ci)

\* pattern.test(s)
test(pattern, s, ci) == SearchFrom(pattern, s, 1, 0, ci).ok

\* s.indexOf(t), positions counted from 1, 0 when t does not occur
indexOf(s, t) ==
    LET hits == {i \in 1..(Len(s) - Len(t) + 1) : SubSeq(s, i, i + Len(t) - 1) = t}
    IN  IF hits = {} THEN 0 ELSE CHOOSE i \in hits : \A j \in hits : i <= j

\* s.substring(i) with i counted from 0
substring(s, i) == IF i >= Len(s) THEN "" ELSE SubSeq(s, i + 1, Len(s))

\* s.split("\n")
RECURSIVE splitLines(_)
splitLines(s) ==
    IF indexOf(s, "\n") = 0 THEN <<s>>
    ELSE <<IF indexOf(s, "\n") = 1 THEN "" ELSE SubSeq(s, 1, indexOf(s, "\n") - 1)>>
         \o splitLines(substring(s, indexOf(s, "\n")))

\* Array of the matches of a pattern with the g flag, from position i on
RECURSIVE matchAllFrom(_, _, _, _, _)
matchAllFrom(pattern, s, i, numGroups, ci) ==
    LET found == SearchFrom(pattern, s, i, numGroups, ci)
    IN  IF ~found.ok THEN <<>>
        ELSE <<found>> \o matchAllFrom(pattern, s,
                                       IF found.end > found.index THEN found.end ELSE found.end + 1,
                                       numGroups, ci)

(***************************************************************************)
(* checkDateWithinSixMonths                                                *)
(***************************************************************************)
monthNames ==
    << "january", "february", "march", "april", "may", "june", "july", "august",
       "september", "october", "november", "december" >>

\* monthNames.indexOf(word): 0-11, -1 when the word is no month name
monthIndex(word) ==
    IF \E k \in 1..12 : monthNames[k] = word
    THEN (CHOOSE k \in 1..12 : monthNames[k] = word) - 1
    ELSE -1

DigitValue(c) == (CHOOSE k \in 1..10 : CharAt(Digits, k) = c) - 1

\* parseInt of a string of digits
RECURSIVE parseInt(_)
parseInt(d) ==
    IF d = "" THEN 0
    ELSE 10 * parseInt(SubSeq(d, 1, Len(d) - 1)) + DigitValue(CharAt(d, Len(d)))

DateSeparators == {"/", "-", "."}

\* (january|february|...|december)
MonthName == Alt([k \in 1..12 |-> Lit(monthNames[k])])

\* st|nd|rd|th
DaySuffixes == Alt(<<Lit("st"), Lit("nd"), Lit("rd"), Lit("th")>>)

\* (?:st|nd|rd|th)?
DaySuffix == Opt(DaySuffixes)

\* /(\d{1,2})[\/\-\.](\d{1,2})[\/\-\.](\d{4})/g
numericDateRegex ==
    Cat(<<Group(1, Rep(Digit, 1, 2, FALSE)), OneOf(DateSeparators),
          Group(2, Rep(Digit, 1, 2, FALSE)), OneOf(DateSeparators),
          Group(3, Rep(Digit, 4, 4, FALSE))>>)

\* (month)\s+(\d{1,2})(?:st|nd|rd|th)?[,\s]+?(\d{4})|(\d{1,2})(?:st|nd|rd|th)?\s+(month)[,\s]+?(\d{4}),
\* flags g and i
writtenDateRegex ==
    Alt(<<Cat(<<Group(1, MonthName), Plus(Space), Group(2, Rep(Digit, 1, 2, FALSE)), DaySuffix,
                LazyPlus(OneOf(WhiteSpace \cup {","})), Group(3, Rep(Digit, 4, 4, FALSE))>>),
          Cat(<<Group(4, Rep(Digit, 1, 2, FALSE)), DaySuffix, Plus(Space), Group(5, MonthName),
                LazyPlus(OneOf(WhiteSpace \cup {","})), Group(6, Rep(Digit, 4, 4, FALSE))>>)>>)

\* /(\d{1,2})(st|nd|rd|th)? day of (\w+),\s*(\d{4})/gi
ordinalDateRegex ==
    Cat(<<Group(1, Rep(Digit, 1, 2, FALSE)), Opt(Group(2, DaySuffixes)), Lit(" day of "),
          Group(3, Plus(Word)), Lit(","), Star(Space), Group(4, Rep(Digit, 4, 4, FALSE))>>)

\* array.slice(0, n)
FirstN(seq, n) == SubSeq(seq, 1, IF Len(seq) < n THEN Len(seq) ELSE n)

NumericMatchCap == 10

WrittenMatchCap == 10

OrdinalMatchCap == 5

MinContentLength == 10

\* line 1052: the three numbers of a numeric match
NumericParts(found) ==
    [p1 |-> parseInt(found.groups[1].val),
     p2 |-> parseInt(found.groups[2].val),
     p3 |-> parseInt(found.groups[3].val)]

\* lines 1080-1094: p1 the month index, p2 the day and p3 the year of a written match
WrittenParts(found) ==
    IF ~Falsy(found.groups[1])
    THEN [p1 |-> monthIndex(toLowerCase(found.groups[1].val)),
          p2 |-> parseInt(found.groups[2].val),
          p3 |-> parseInt(found.groups[3].val)]
    ELSE [p1 |-> monthIndex(toLowerCase(found.groups[5].val)),
          p2 |-> parseInt(found.groups[4].val),
          p3 |-> parseInt(found.groups[6].val)]

\* lines 1114-1116: p1 the index of the word in monthNames (-1 if it is none), p2
\* the day and p3 the year of an ordinal match
OrdinalParts(found) ==
    [p1 |-> monthIndex(toLowerCase(found.groups[3].val)),
     p2 |-> parseInt(found.groups[1].val),
     p3 |-> parseInt(found.groups[4].val)]

\* lines 1048, 1077, 1111: the matches the check looks at
NumericMatches(content) ==
    LET Parts(found) == [k \in 1..Len(found) |-> NumericParts(found[k])]
    IN  Parts(FirstN(matchAllFrom(numericDateRegex, content, 1, 3, FALSE), NumericMatchCap))

WrittenMatches(content) ==
    LET Parts(found) == [k \in 1..Len(found) |-> WrittenParts(found[k])]
    IN  Parts(FirstN(matchAllFrom(writtenDateRegex, content, 1, 6, TRUE), WrittenMatchCap))

OrdinalMatches(content) ==
    LET Parts(found) == [k \in 1..Len(found) |-> OrdinalParts(found[k])]
    IN  Parts(FirstN(matchAllFrom(ordinalDateRegex, content, 1, 4, TRUE), OrdinalMatchCap))

\* lines 1052-1070: a numeric match read as MM/DD/YYYY or as DD/MM/YYYY
NumericAccepted(m, c) ==
    \/ WithinWindow(NewDate(m.p3, m.p1 - 1, m.p2), c)
    \/ WithinWindow(NewDate(m.p3, m.p2 - 1, m.p1), c)

\* lines 1096-1106 and 1118-1128: a written or ordinal match
NamedMonthAccepted(m, c) == m.p1 # -1 /\ WithinWindow(NewDate(m.p3, m.p1, m.p2), c)

\* checkDateWithinSixMonths(content), with c what new Date() returns
checkDateWithinSixMonths(content, c) ==
    LET AnyNumeric(found) == \E k \in 1..Len(found) : NumericAccepted(found[k], c)
        AnyNamed(found) == \E k \in 1..Len(found) : NamedMonthAccepted(found[k], c)
    IN  IF content = "" \/ Len(content) < MinContentLength THEN FALSE
        ELSE \/ AnyNumeric(NumericMatches(content))
             \/ AnyNamed(WrittenMatches(content))
             \/ AnyNamed(OrdinalMatches(content))

(***************************************************************************)
(* What the rule sets share.  A key-value pair is [key, value]: key is     *)
(* pair.key.content (Undefined when the pair has no key or the key no      *)
(* content), value.present tells whether pair.value exists and             *)
(* value.content is pair.value.content.                                    *)
(***************************************************************************)
\* array.push(...) under a condition
When(cond, elements) == IF cond THEN elements ELSE <<>>

\* words.some(w => s.includes(w))
includesAny(s, words) == \E w \in words : includes(s, w)

\* /^\d{1,2}\/\d{1,2}\/\d{4}$/
SlashDateLine ==
    Cat(<<Bol, Rep(Digit, 1, 2, FALSE), Lit("/"), Rep(Digit, 1, 2, FALSE), Lit("/"),
          Rep(Digit, 4, 4, FALSE), Eol>>)

\* /^\d{1,2}[\/-]\d{1,2}[\/-]\d{2,4}$/
ShortDateLine ==
    Cat(<<Bol, Rep(Digit, 1, 2, FALSE), OneOf({"/", "-"}), Rep(Digit, 1, 2, FALSE),
          OneOf({"/", "-"}), Rep(Digit, 2, 4, FALSE), Eol>>)

\* /^attn:/i
AttnLine == Cat(<<Bol, Lit("attn:")>>)

\* /LLC|INC|CORP|CORPORATION|COMPANY|LP|LLP/i
EntityWord ==
    Alt(<<Lit("LLC"), Lit("INC"), Lit("CORP"), Lit("CORPORATION"), Lit("COMPANY"), Lit("LP"),
          Lit("LLP")>>)

\* the loop over lines i..last of a rule set looking for the organization name:
\* rule.dateLine is the pattern of a line that is only a date, rule.skip the
\* words of header lines, rule.attn whether "attn:" lines are skipped and
\* rule.entity whether an entity word makes a line the name for certain
RECURSIVE ScanLines(_, _, _, _, _)
ScanLines(lines, i, last, detected, rule) ==
    IF i > last THEN detected
    ELSE LET line == trim(lines[i])
             candidate ==
                 /\ line # ""
                 /\ Len(line) > 3
                 /\ ~test(rule.dateLine, line, FALSE)
                 /\ ~includesAny(toLowerCase(line), rule.skip)
                 /\ ~(rule.attn /\ test(AttnLine, line, TRUE))
             confident ==
                 \/ line = toUpperCase(line) /\ Len(line) > 5
                 \/ rule.entity /\ test(EntityWord, line, TRUE)
         IN  IF ~candidate THEN ScanLines(lines, i + 1, last, detected, rule)
             ELSE IF confident THEN Str(line)
             ELSE ScanLines(lines, i + 1, last, Str(line), rule)

\* lines.findIndex(line => words.some(w => line.includes(w))), counted from 1,
\* 0 when there is none
findLineIndex(lines, words) ==
    LET hits == {i \in 1..Len(lines) : includesAny(lines[i], words)}
    IN  IF hits = {} THEN 0 ELSE CHOOSE i \in hits : \A j \in hits : i <= j

\* keyValuePairs.find(pair => pair.key && pair.key.content &&
\* words.some(w => pair.key.content.toLowerCase().includes(w))), as an index
\* counted from 1, 0 when there is none
findPairByKey(keyValuePairs, words) ==
    LET hits == {i \in 1..Len(keyValuePairs) :
                    /\ ~Falsy(keyValuePairs[i].key)
                    /\ includesAny(toLowerCase(keyValuePairs[i].key.val), words)}
    IN  IF hits = {} THEN 0 ELSE CHOOSE i \in hits : \A j \in hits : i <= j

\* keyValuePairs.find(pair => pair.key && pair.key.content &&
\* pair.key.content.toLowerCase().trim() === 'name:')
findNamePair(keyValuePairs) ==
    LET hits == {i \in 1..Len(keyValuePairs) :
                    /\ ~Falsy(keyValuePairs[i].key)
                    /\ trim(toLowerCase(keyValuePairs[i].key.val)) = "name:"}
    IN  IF hits = {} THEN 0 ELSE CHOOSE i \in hits : \A j \in hits : i <= j

\* if (pair && pair.value) variable = pair.value.content, for the pair at index k
valueOfPair(keyValuePairs, k, variable) ==
    IF k # 0 /\ keyValuePairs[k].value.present THEN keyValuePairs[k].value.content
    ELSE variable

\* s.slice(-3)
lastThree(s) == IF Len(s) <= 3 THEN s ELSE SubSeq(s, Len(s) - 2, Len(s))

Max(a, b) == IF a > b THEN a ELSE b

Min(a, b) == IF a < b THEN a ELSE b

(***************************************************************************)
(* Tax clearance certificates                                              *)
(***************************************************************************)
\* a comparison that does not ask whether the form sent a name (not what the rule sets do)
NamesDifferUnguarded(formFields, detectedOrganizationName) ==
    /\ ~Falsy(detectedOrganizationName)
    /\ ~organizationNamesMatch(formFields.organizationName, detectedOrganizationName)

\* if (formFields.organizationName && detectedOrganizationName) if
\* (!organizationNamesMatch(formFields.organizationName, detectedOrganizationName))
NamesDiffer(formFields, detectedOrganizationName) ==
    /\ ~Falsy(formFields.organizationName)
    /\ ~Falsy(detectedOrganizationName)
    /\ ~organizationNamesMatch(formFields.organizationName, detectedOrganizationName)

TaxClearanceScan ==
    [dateLine |-> SlashDateLine, skip |-> {"state of", "department of", "division of", "governor"},
     attn |-> TRUE, entity |-> FALSE]

\* lines 174-215 and 337-378: the line scan above the anchor line, then the
\* key-value pairs
TaxClearanceName(content, keyValuePairs) ==
    LET Scanned(lines, businessAssistanceIndex) ==
            IF businessAssistanceIndex > 1
            THEN ScanLines(lines, Max(1, businessAssistanceIndex - 5), businessAssistanceIndex - 1,
                           Null, TaxClearanceScan)
            ELSE Null
        Above(lines) ==
            Scanned(lines,
                    findLineIndex(lines, {"BUSINESS ASSISTANCE OR INCENTIVE", "CLEARANCE CERTIFICATE"}))
        OrByPair(scanned) ==
            IF Falsy(scanned)
            THEN valueOfPair(keyValuePairs,
                             findPairByKey(keyValuePairs,
                                           {"taxpayer name", "applicant", "business name"}),
                             scanned)
            ELSE scanned
    IN  OrByPair(Above(splitLines(content)))

\* /serial[\s#]*:?\s*\d+/i
SerialNumber ==
    Cat(<<Lit("serial"), Star(OneOf(WhiteSpace \cup {"#"})), Opt(Lit(":")), Star(Space),
          Plus(Digit)>>)

\* /applicant\s+id[#:]?\s*:?\s*(.*?)(?=\r|\n|$)/i
ApplicantId ==
    Cat(<<Lit("applicant"), Plus(Space), Lit("id"), Opt(OneOf({"#", ":"})), Star(Space),
          Opt(Lit(":")), Star(Space), Group(1, LazyStar(AnyChar)),
          Ahead(Alt(<<Lit("\r"), Lit("\n"), Eol>>))>>)

\* lines 257-277 and 414-434: detectedId
TaxClearanceId(content, keyValuePairs) ==
    LET Captured(applicantIdMatch) ==
            IF applicantIdMatch.ok /\ ~Falsy(applicantIdMatch.groups[1])
            THEN Str(trim(applicantIdMatch.groups[1].val))
            ELSE Null
        OrByPair(found) ==
            IF Falsy(found)
            THEN valueOfPair(keyValuePairs, findPairByKey(keyValuePairs, {"applicant id", "id #"}),
                             found)
            ELSE found
    IN  OrByPair(Captured(match(content, ApplicantId, 1, TRUE)))

\* /Marita\s+R\.\s+Sciarrotta|John\s+J\.\s+Ficara/i
DirectorName ==
    Alt(<<Cat(<<Lit("Marita"), Plus(Space), Lit("R."), Plus(Space), Lit("Sciarrotta")>>),
          Cat(<<Lit("John"), Plus(Space), Lit("J."), Plus(Space), Lit("Ficara")>>)>>)

NameMismatch ==
    [missing |-> "Organization name doesn't match the one on the certificate",
     action |-> "Verify that the correct organization name was entered"]

\* lines 279-290 and 436-447
FeinMismatch(formFields, detectedId) ==
    /\ ~Falsy(formFields.fein)
    /\ Len(formFields.fein.val) >= 3
    /\ ~Falsy(detectedId)
    /\ ~includes(detectedId.val, lastThree(formFields.fein.val))

validateTaxClearanceOnline(content, contentLower, keyValuePairs, formFields, now) ==
    LET Report(detectedOrganizationName, mismatch, hasSerial, feinMismatch, isDateWithinSixMonths,
               hasSignature) ==
            LET noNewJersey == ~includesAny(contentLower, {"state of new jersey", "new jersey"})
                noTreasury == ~includes(contentLower, "department of the treasury")
                noTaxation == ~includes(contentLower, "division of taxation")
                hasRejectedAgency ==
                    includesAny(contentLower,
                                {"department of environmental protection",
                                 "environmental protection"})
            IN  [missingElements |->
                     When(mismatch, <<NameMismatch.missing>>)
                     \o When(~includes(contentLower, "clearance certificate"),
                             <<"Required keyword: 'Clearance Certificate'">>)
                     \o When(~hasSerial, <<"Serial Number is missing">>)
                     \o When(noNewJersey, <<"Required keyword: 'State of New Jersey'">>)
                     \o When(noTreasury, <<"Required keyword: Department of the Treasury">>)
                     \o When(noTaxation, <<"Required keyword: Division of Taxation">>)
                     \o When(feinMismatch,
                             <<"FEIN last three digits don't match the Applicant ID on the certificate">>)
                     \o When(hasRejectedAgency,
                             <<"Tax Clearance Certificate is issued by the Department of Environmental Protection">>)
                     \o When(~isDateWithinSixMonths,
                             <<"Certificate must be dated within the past six months">>)
                     \o When(~hasSignature, <<"Signature is missing">>),
                 suggestedActions |->
                     When(mismatch, <<NameMismatch.action>>)
                     \o When(~hasSerial,
                             <<"Verify this is an online-generated certificate with a Serial Number">>)
                     \o When(feinMismatch, <<"Verify that the correct FEIN was entered">>)
                     \o When(hasRejectedAgency,
                             <<"This agency is not accepted. Please provide a valid tax clearance certificate from a different agency">>)
                     \o When(~isDateWithinSixMonths, <<"Obtain a more recent tax clearance certificate">>)
                     \o When(~hasSignature,
                             <<"Verify the certificate has been signed by an authorized official">>),
                 detectedOrganizationName |-> detectedOrganizationName]
        Named(detectedOrganizationName) ==
            Report(detectedOrganizationName,
                   NamesDiffer(formFields, detectedOrganizationName),
                   \/ includesAny(contentLower, {"serial#", "serial #", "serial number"})
                   \/ test(SerialNumber, content, TRUE),
                   FeinMismatch(formFields, TaxClearanceId(content, keyValuePairs)),
                   checkDateWithinSixMonths(content, now),
                   includes(content, "Acting Director") \/ test(DirectorName, content, TRUE))
    IN  Named(TaxClearanceName(content, keyValuePairs))

validateTaxClearanceManual(content, contentLower, keyValuePairs, formFields, now) ==
    LET Report(detectedOrganizationName, mismatch, feinMismatch, isDateWithinSixMonths,
               hasSignature) ==
            LET noManual == ~includes(contentLower, "batc") /\ ~includes(contentLower, "manual")
                noTreasury == ~includes(contentLower, "department of the treasury")
                noTaxation == ~includes(contentLower, "division of taxation")
                hasRejectedAgency ==
                    includesAny(contentLower,
                                {"department of environmental protection",
                                 "environmental protection"})
            IN  [missingElements |->
                     When(mismatch, <<NameMismatch.missing>>)
                     \o When(~includes(contentLower, "clearance certificate"),
                             <<"Required keyword: 'Clearance Certificate'">>)
                     \o When(~includes(contentLower, "state of new jersey"),
                             <<"Required keyword: 'State of New Jersey'">>)
                     \o When(noManual, <<"Required keyword: 'BATC - Manual'">>)
                     \o When(noTreasury, <<"Required keyword: Department of the Treasury">>)
                     \o When(noTaxation, <<"Required keyword: Division of Taxation">>)
                     \o When(feinMismatch,
                             <<"FEIN last three digits don't match the Applicant ID on the certificate">>)
                     \o When(hasRejectedAgency,
                             <<"Tax Clearance Certificate is issued by the Department of Environmental Protection">>)
                     \o When(~isDateWithinSixMonths,
                             <<"Certificate must be dated within the past six months">>)
                     \o When(~hasSignature, <<"Signature is missing">>),
                 suggestedActions |->
                     When(mismatch, <<NameMismatch.action>>)
                     \o When(noManual,
                             <<"Verify this is a manually generated tax clearance certificate">>)
                     \o When(feinMismatch, <<"Verify that the correct FEIN was entered">>)
                     \o When(hasRejectedAgency,
                             <<"This agency is not accepted. Please provide a valid tax clearance certificate from a different agency">>)
                     \o When(~isDateWithinSixMonths, <<"Obtain a more recent tax clearance certificate">>)
                     \o When(~hasSignature,
                             <<"Verify the certificate has been signed by an authorized official">>),
                 detectedOrganizationName |-> detectedOrganizationName]
        Named(detectedOrganizationName) ==
            Report(detectedOrganizationName,
                   NamesDiffer(formFields, detectedOrganizationName),
                   FeinMismatch(formFields, TaxClearanceId(content, keyValuePairs)),
                   checkDateWithinSixMonths(content, now),
                   \/ includes(content, "Acting Director")
                   \/ includes(content, "Director of Taxation")
                   \/ test(DirectorName, content, TRUE))
    IN  Named(TaxClearanceName(content, keyValuePairs))

(***************************************************************************)
(* checkForDatePresence                                                    *)
(***************************************************************************)
\* /(\d{1,2})[\/\-\.](\d{1,2})[\/\-\.](\d{2,4})/g
PresentNumericDate ==
    Cat(<<Group(1, Rep(Digit, 1, 2, FALSE)), OneOf(DateSeparators),
          Group(2, Rep(Digit, 1, 2, FALSE)), OneOf(DateSeparators),
          Group(3, Rep(Digit, 2, 4, FALSE))>>)

\* (month)\s+(\d{1,2})(?:st|nd|rd|th)?[,\s]*?(\d{4})|(\d{1,2})(?:st|nd|rd|th)?\s+(month)[,\s]*?(\d{4})
PresentWrittenDate ==
    Alt(<<Cat(<<MonthName, Plus(Space), Rep(Digit, 1, 2, FALSE), DaySuffix,
                LazyStar(OneOf(WhiteSpace \cup {","})), Rep(Digit, 4, 4, FALSE)>>),
          Cat(<<Rep(Digit, 1, 2, FALSE), DaySuffix, Plus(Space), MonthName,
                LazyStar(OneOf(WhiteSpace \cup {","})), Rep(Digit, 4, 4, FALSE)>>)>>)

\* /(\d{1,2})(st|nd|rd|th)?\s+day\s+of\s+(\w+)[,\s]*(\d{4})/gi
PresentOrdinalDate ==
    Cat(<<Rep(Digit, 1, 2, FALSE), DaySuffix, Plus(Space), Lit("day"), Plus(Space), Lit("of"),
          Plus(Space), Plus(Word), Star(OneOf(WhiteSpace \cup {","})), Rep(Digit, 4, 4, FALSE)>>)

\* /(?:©\s*|copyright\s*|adopted\s*|effective\s*|revised\s*|amended\s*|dated\s*|year\s*)(\d{4})/gi
PresentYear ==
    Cat(<<Alt(<<Lit("©"), Lit("copyright"), Lit("adopted"), Lit("effective"), Lit("revised"),
                Lit("amended"), Lit("dated"), Lit("year")>>),
          Star(Space), Rep(Digit, 4, 4, FALSE)>>)

\* lines 1152-1154: the match looks like a date
LooksLikeDate(found) ==
    LET num1 == parseInt(found.groups[1].val)
        num2 == parseInt(found.groups[2].val)
        year == parseInt(found.groups[3].val)
    IN  year >= 1900 /\ year <= 2100 /\ num1 >= 1 /\ num1 <= 31 /\ num2 >= 1 /\ num2 <= 31

checkForDatePresence(content) ==
    LET AnyLooksLikeDate(numericDateMatches) ==
            \E k \in 1..Len(numericDateMatches) : LooksLikeDate(numericDateMatches[k])
    IN  IF content = "" \/ Len(content) < MinContentLength THEN FALSE
        ELSE \/ AnyLooksLikeDate(FirstN(matchAllFrom(PresentNumericDate, content, 1, 3, FALSE),
                                        NumericMatchCap))
             \/ test(PresentWrittenDate, content, TRUE)
             \/ test(PresentOrdinalDate, content, TRUE)
             \/ test(PresentYear, content, TRUE)

(***************************************************************************)
(* The other rule sets                                                     *)
(***************************************************************************)
\* the result has no detectedOrganizationName property
Absent == [type |-> "absent", val |-> ""]

\* the first of the phrases (in the order of the list) that text includes, as
\* [index, length] with index counted from 1, index 0 when there is none
RECURSIVE firstPhrase(_, _, _)
firstPhrase(text, phrases, k) ==
    IF k > Len(phrases) THEN [index |-> 0, length |-> 0]
    ELSE IF indexOf(text, phrases[k]) # 0
         THEN [index |-> indexOf(text, phrases[k]), length |-> Len(phrases[k])]
         ELSE firstPhrase(text, phrases, k + 1)

\* lines 517-541, 606-631, 978-1002: the scan of the first five lines after the
\* phrase found at index
NameAfterPhrase(content, found, rule) ==
    LET FirstFive(lines) == ScanLines(lines, 1, Min(5, Len(lines)), Null, rule)
    IN  IF found.index = 0 THEN Null
        ELSE FirstFive(splitLines(substring(content, found.index - 1 + found.length)))

AlternativeNameScan ==
    [dateLine |-> ShortDateLine,
     skip |-> {"state of", "department of", "division of", "new jersey", "treasury", "revenue"},
     attn |-> FALSE, entity |-> TRUE]

\* "... Certificate shows: "name""
ShowsAction(detectedOrganizationName) ==
    "Verify that the correct organization name was entered. Certificate shows: \""
        \o detectedOrganizationName.val \o "\""

validateCertificateAlternativeName(content, contentLower, keyValuePairs, formFields) ==
    LET Report(hasCertificateKeyword, detectedOrganizationName, mismatch) ==
            LET hasDivisionOfRevenue == includes(contentLower, "division of revenue")
                hasTreasuryDateStamp ==
                    includesAny(contentLower, {"state treasurer", "great seal", "seal at trenton"})
            IN  [missingElements |->
                     When(~hasCertificateKeyword, <<"Required keyword: 'Certificate of Alternate Name'">>)
                     \o When(mismatch, <<NameMismatch.missing>>)
                     \o When(~hasDivisionOfRevenue, <<"Required keyword: 'Division of Revenue'">>)
                     \o When(~hasTreasuryDateStamp, <<"Date stamp by Department of Treasury is missing">>),
                 suggestedActions |->
                     When(mismatch, <<ShowsAction(detectedOrganizationName)>>)
                     \o When(~hasDivisionOfRevenue,
                             <<"Verify document has been issued by the Division of Revenue">>)
                     \o When(~hasTreasuryDateStamp,
                             <<"Verify document has been properly stamped by the Department of Treasury">>),
                 detectedOrganizationName |-> detectedOrganizationName]
        Named(hasCertificateKeyword, detectedOrganizationName) ==
            Report(hasCertificateKeyword, detectedOrganizationName,
                   NamesDiffer(formFields, detectedOrganizationName))
        Keyword(hasCertificateKeyword) ==
            Named(hasCertificateKeyword,
                  IF hasCertificateKeyword
                  THEN NameAfterPhrase(content,
                                       firstPhrase(contentLower,
                                                   <<"certificate of alternate name",
                                                     "certificate of renewal of alternate name",
                                                     "name of corporation/business:">>, 1),
                                       AlternativeNameScan)
                  ELSE Null)
    IN  Keyword(includesAny(contentLower,
                            {"certificate of alternate name",
                             "certificate of renewal of alternate name",
                             "registration of alternate name"}))

\* /name:\s*([^\r\n]+)/i, /name of domestic corporation:\s*([^\r\n]+)/i and
\* /the name of the limited liability company is\s*([^\r\n]+)/i
RestOfLineAfter(phrase) ==
    Cat(<<Lit(phrase), Star(Space), Group(1, Plus(NoneOf({"\r", "\n"})))>>)

\* /above-named\s+([^was]+)was/i
AboveNamed ==
    Cat(<<Lit("above-named"), Plus(Space), Group(1, Plus(NoneOf({"w", "a", "s"}))), Lit("was")>>)

\* if (found && found[1] && found[1].trim().length > 0) variable = found[1].trim()
trimmedGroup(found, variable) ==
    IF found.ok /\ ~Falsy(found.groups[1]) /\ Len(trim(found.groups[1].val)) > 0
    THEN Str(trim(found.groups[1].val))
    ELSE variable

\* found || other, for the results of String.prototype.match
OrElse(found, other) == IF found.ok THEN found ELSE other

\* lines 636-660 and 722-746: the name by "Name:", by "above-named" and by the
\* key-value pairs, starting from the value detected so far
NameByKeyword(content, keyValuePairs, detected) ==
    LET OrAboveNamed(byName) ==
            IF Falsy(byName) THEN trimmedGroup(match(content, AboveNamed, 1, TRUE), byName)
            ELSE byName
        OrByPair(byAboveNamed) ==
            IF Falsy(byAboveNamed)
            THEN valueOfPair(keyValuePairs, findNamePair(keyValuePairs), byAboveNamed)
            ELSE byAboveNamed
    IN  OrByPair(OrAboveNamed(trimmedGroup(
            OrElse(match(content, RestOfLineAfter("name:"), 1, TRUE),
                   OrElse(match(content, RestOfLineAfter("name of domestic corporation:"), 1, TRUE),
                          match(content,
                                RestOfLineAfter("the name of the limited liability company is"),
                                1, TRUE))),
            detected)))

FormationScan ==
    [dateLine |-> ShortDateLine,
     skip |-> {"short form standing", "long form standing", "new jersey department", "date filed",
               "state of", "department of", "division of", "treasury"},
     attn |-> FALSE, entity |-> TRUE]

\* /signature|signed|authorized representative/i or /state treasurer|organizer|treasurer/i
OfficialSignature ==
    Alt(<<Lit("signature"), Lit("signed"), Lit("authorized representative"),
          Lit("state treasurer"), Lit("organizer"), Lit("treasurer")>>)

\* /verify this certificate|verification|certification/i
VerificationInfo ==
    Alt(<<Lit("verify this certificate"), Lit("verification"), Lit("certification")>>)

validateCertificateOfFormation(content, contentLower, keyValuePairs, formFields) ==
    LET Report(detectedOrganizationName, mismatch, hasSignature, hasDate, hasVerificationInfo) ==
            LET noTitle ==
                    ~includesAny(contentLower,
                                 {"certificate of formation", "short form standing",
                                  "long form standing"})
                noIssuer ==
                    ~includesAny(contentLower,
                                 {"new jersey department of the treasury", "new jersey",
                                  "division of revenue"})
            IN  [missingElements |->
                     When(mismatch, <<NameMismatch.missing>>)
                     \o When(noTitle, <<"Required keyword: 'Certificate of Formation'">>)
                     \o When(noIssuer, <<"Certificate is not issued by the NJ Department of the Treasury">>)
                     \o When(~hasSignature, <<"Signature of authorized state official is missing">>)
                     \o When(~hasDate, <<"Document must contain a date">>)
                     \o When(~hasVerificationInfo, <<"Certificate verification information is missing">>),
                 suggestedActions |->
                     When(mismatch, <<NameMismatch.action>>)
                     \o When(noIssuer, <<"Verify certificate is issued by the NJ Department of the Treasury">>)
                     \o When(~hasSignature,
                             <<"Verify document has been signed by an authorized state official">>)
                     \o When(~hasDate, <<"Verify that the document includes a stamped date">>)
                     \o When(~hasVerificationInfo,
                             <<"Verify document contains certificate verification information">>),
                 detectedOrganizationName |-> detectedOrganizationName]
        Named(detectedOrganizationName) ==
            Report(detectedOrganizationName,
                   NamesDiffer(formFields, detectedOrganizationName),
                   test(OfficialSignature, content, TRUE),
                   checkForDatePresence(content),
                   test(VerificationInfo, content, TRUE))
        OrByKeyword(scanned) ==
            IF Falsy(scanned) THEN NameByKeyword(content, keyValuePairs, scanned) ELSE scanned
    IN  Named(OrByKeyword(NameAfterPhrase(
            content,
            firstPhrase(contentLower,
                        <<"certificate of formation", "short form standing",
                          "long form standing with officers and directors",
                          "name of domestic corporation:", "name:", "above-named", "entity name">>,
                        1),
            FormationScan)))

validateCertificateOfFormationIndependent(content, contentLower, keyValuePairs, formFields) ==
    LET Report(detectedOrganizationName, mismatch, feinMismatch, hasFilingDate, hasSignature) ==
            [missingElements |->
                     When(mismatch, <<NameMismatch.missing>>)
                     \o When(feinMismatch,
                             <<"FEIN (Federal Employer Identification Number) doesn't match the one on the certificate">>)
                     \o When(~includes(contentLower, "certificate of formation"),
                             <<"Required keyword: 'Certificate of Formation'">>)
                     \o When(~hasFilingDate, <<"Required keyword: 'Filed'">>)
                     \o When(~hasSignature, <<"Signature of authorized state official is missing">>),
                 suggestedActions |->
                     When(mismatch, <<NameMismatch.action>>)
                     \o When(feinMismatch, <<"Verify that the correct FEIN was entered">>)
                     \o When(~hasFilingDate,
                             <<"Verify document is stamped by the Department of the Treasury">>)
                     \o When(~hasSignature,
                             <<"Verify document has been signed by an authorized state official">>),
                 detectedOrganizationName |-> detectedOrganizationName]
        Differs(feinName, detectedOrgNameLower) ==
            /\ ~includes(detectedOrgNameLower, feinName)
            /\ ~includes(feinName, detectedOrgNameLower)
        Named(detectedOrganizationName) ==
            Report(detectedOrganizationName,
                   NamesDiffer(formFields, detectedOrganizationName),
                   /\ ~Falsy(formFields.fein)
                   /\ ~Falsy(detectedOrganizationName)
                   /\ Differs(trim(formFields.fein.val),
                              trim(toLowerCase(detectedOrganizationName.val))),
                   test(Lit("filed"), content, TRUE),
                   test(OfficialSignature, content, TRUE))
    IN  Named(NameByKeyword(content, keyValuePairs, Null))

\* /s\/?\/|_+\s*name/i
SignatureMark ==
    Alt(<<Cat(<<Lit("s"), Opt(Lit("/")), Lit("/")>>),
          Cat(<<Plus(Lit("_")), Star(Space), Lit("name")>>)>>)

\* /date[d]?(\s*on)?:|dated|executed on/i
DateLabel ==
    Alt(<<Cat(<<Lit("date"), Opt(OneOf({"d"})), Opt(Cat(<<Star(Space), Lit("on")>>)), Lit(":")>>),
          Lit("dated"), Lit("executed on")>>)

\* /\d{1,2}[\/-]\d{1,2}[\/-]\d{2,4}/
ShortDate ==
    Cat(<<Rep(Digit, 1, 2, FALSE), OneOf({"/", "-"}), Rep(Digit, 1, 2, FALSE), OneOf({"/", "-"}),
          Rep(Digit, 2, 4, FALSE)>>)

\* an operating agreement validated as a certificate that names its holder (not what the
\* code does)
validateOperatingAgreementNamed(content, contentLower, keyValuePairs, formFields) ==
    validateCertificateOfFormationIndependent(content, contentLower, keyValuePairs, formFields)

validateOperatingAgreement(content, contentLower, keyValuePairs, formFields) ==
    LET Report(hasSignatures, hasDate) ==
            LET hasNewJersey == includesAny(contentLower, {"new jersey", "nj"})
            IN  [missingElements |->
                     When(~includes(contentLower, "operating agreement"),
                          <<"Required keyword: 'Operating Agreement'">>)
                     \o When(~hasSignatures, <<"Member signatures are missing">>)
                     \o When(~hasDate, <<"Date is missing">>)
                     \o When(~hasNewJersey, <<"New Jersey state reference is missing">>),
                 suggestedActions |->
                     When(~hasSignatures, <<"Verify the operating agreement is signed by all members">>)
                     \o When(~hasDate, <<"Verify the operating agreement is dated">>)
                     \o When(~hasNewJersey, <<"Verify the agreement references New Jersey state law">>),
                 detectedOrganizationName |-> Absent]
    IN  Report(\/ includesAny(contentLower, {"signature", "signed by", "undersigned"})
               \/ test(SignatureMark, content, TRUE),
               \/ test(DateLabel, content, TRUE)
               \/ test(ShortDate, content, FALSE)
               \/ test(Rep(Digit, 4, 4, FALSE), content, FALSE))

validateCertificateOfIncorporation(content, contentLower, keyValuePairs, formFields) ==
    LET hasCertificateTitle ==
            includesAny(contentLower, {"certificate of inc", "certificate of incorporation"})
        hasDirectors ==
            includesAny(contentLower,
                        {"board of directors", "directors", "incorporators", "trustees",
                         "shareholders"})
    IN  [missingElements |->
             When(~hasCertificateTitle, <<"Required text: 'Certificate of Incorporation'">>)
             \o When(~hasDirectors, <<"Board of Directors section is missing">>),
         suggestedActions |->
             When(~hasDirectors, <<"Verify the certificate lists the Board of Directors">>),
         detectedOrganizationName |-> Null]

validateIRSDeterminationLetter(content, contentLower, keyValuePairs) ==
    LET hasIRSLetterhead ==
            includesAny(contentLower, {"internal revenue service", "department of the treasury"})
        hasSignature == includes(content, "Sincerely,") \/ includes(content, "Director")
    IN  [missingElements |->
             When(~hasIRSLetterhead, <<"IRS letterhead is missing">>)
             \o When(~hasSignature, <<"Signature is missing">>),
         suggestedActions |->
             When(~hasIRSLetterhead,
                  <<"Verify the letter is on IRS letterhead showing 'Internal Revenue Service'">>)
             \o When(~hasSignature,
                     <<"Verify the certificate has been signed by an authorized official">>),
         detectedOrganizationName |-> Absent]

validateBylaws(content, contentLower, keyValuePairs) ==
    LET Report(hasDate) ==
            [missingElements |->
                     When(~includesAny(contentLower, {"bylaws", "by-laws", "by laws"}),
                          <<"Required keyword: 'Bylaws'">>)
                     \o When(~hasDate, <<"Document must contain a date">>),
                 suggestedActions |->
                     When(~hasDate, <<"Verify that the by-laws document includes a date">>),
                 detectedOrganizationName |-> Absent]
    IN  Report(checkForDatePresence(content))

AuthorityScan ==
    [dateLine |-> ShortDateLine,
     skip |-> {"tax registration", "tax effective date", "document locator", "date issued",
               "state of", "department of", "division of"},
     attn |-> FALSE, entity |-> TRUE]

validateCertificateOfAuthority(content, contentLower, keyValuePairs, formFields) ==
    LET Report(detectedOrganizationName, mismatch) ==
            LET hasNJReference == includesAny(contentLower, {"state of new jersey", "new jersey"})
                hasTaxationOrTreasury ==
                    includesAny(contentLower,
                                {"division of taxation", "department of the treasury"})
            IN  [missingElements |->
                     When(~includes(contentLower, "certificate of authority"),
                          <<"Required keyword: 'Certificate of Authority'">>)
                     \o When(~hasNJReference, <<"Required keyword: 'State of New Jersey'">>)
                     \o When(~hasTaxationOrTreasury,
                             <<"Required keyword: 'Division of Taxation' or 'Department of the Treasury'">>)
                     \o When(mismatch, <<NameMismatch.missing>>),
                 suggestedActions |->
                     When(~hasNJReference, <<"Verify the certificate mentions State of New Jersey">>)
                     \o When(~hasTaxationOrTreasury,
                             <<"Verify the certificate is issued by the Division of Taxation or Department of the Treasury">>)
                     \o When(mismatch, <<ShowsAction(detectedOrganizationName)>>),
                 detectedOrganizationName |-> detectedOrganizationName]
        Named(detectedOrganizationName) ==
            Report(detectedOrganizationName, NamesDiffer(formFields, detectedOrganizationName))
    IN  Named(NameAfterPhrase(
            content,
            firstPhrase(contentLower,
                        <<"this authorization is good only for the named person at the location specified herein this authorization is null and void if any change of ownership or address is effected",
                          "change in ownership or address.", "certificate of authority">>, 1),
            AuthorityScan))

\* a rule set that gives its advice whatever it found (not what the code does)
validateCertificateOfTradeNameAdvised(content, contentLower, keyValuePairs) ==
    [missingElements |->
         When(~includes(contentLower, "certificate of trade name"),
              <<"Required keyword: 'Certificate of Trade Name'">>),
     suggestedActions |-> <<"Verify that the document is a Certificate of Trade Name">>,
     detectedOrganizationName |-> Absent]

validateCertificateOfTradeName(content, contentLower, keyValuePairs) ==
    LET noTitle == ~includes(contentLower, "certificate of trade name")
    IN  [missingElements |-> When(noTitle, <<"Required keyword: 'Certificate of Trade Name'">>),
         suggestedActions |->
             When(noTitle, <<"Verify that the document is a Certificate of Trade Name">>),
         detectedOrganizationName |-> Absent]

(***************************************************************************)
(* validateDocumentByType.  The repository holds three revisions of it:    *)
(* the Azure Function (src/unnamed/part_000) and two revisions of the      *)
(* Next.js route (src/unnamed/part_004 and                                 *)
(* src/app/api/validate-document/route.js).  The rule sets modelled above  *)
(* are those of the Azure Function; of the Next.js revisions the model     *)
(* holds the switch, not the rule sets it calls.                           *)
(***************************************************************************)
Revisions == {"part_000", "part_004", "route.js"}

\* the case labels of the switch of the Azure Function with the rule set each calls
AzureCases ==
    << <<"tax-clearance-online", "validateTaxClearanceOnline">>,
       <<"tax-clearance-manual", "validateTaxClearanceManual">>,
       <<"cert-alternative-name", "validateCertificateAlternativeName">>,
       <<"cert-trade-name", "validateCertificateOfTradeName">>,
       <<"cert-formation", "validateCertificateOfFormation">>,
       <<"cert-formation-independent", "validateCertificateOfFormationIndependent">>,
       <<"operating-agreement", "validateOperatingAgreement">>,
       <<"cert-incorporation", "validateCertificateOfIncorporation">>,
       <<"irs-determination", "validateIRSDeterminationLetter">>,
       <<"bylaws", "validateBylaws">>,
       <<"cert-authority", "validateCertificateOfAuthority">> >>

\* the case labels of the switch of the two Next.js revisions
NextJsCases ==
    << <<"tax-clearance-online", "validateTaxClearanceOnline">>,
       <<"tax-clearance-manual", "validateTaxClearanceManual">>,
       <<"cert-alternative-name", "validateCertificateAlternativeName">>,
       <<"cert-trade-name", "validateCertificateOfTradeName">>,
       <<"cert-formation", "validateCertificateOfFormation">>,
       <<"cert-formation-independent", "validateCertificateOfFormationIndependent">>,
       <<"cert-good-standing-long", "validateCertificateOfGoodStandingLong">>,
       <<"cert-good-standing-short", "validateCertificateOfGoodStandingShort">>,
       <<"operating-agreement", "validateOperatingAgreement">>,
       <<"cert-incorporation", "validateCertificateOfIncorporation">>,
       <<"irs-determination", "validateIRSDeterminationLetter">>,
       <<"bylaws", "validateBylaws">>,
       <<"cert-authority", "validateCertificateOfAuthority">>,
       <<"cert-authority-auto", "validateCertificateOfAuthorityAutomatic">> >>

\* every revision with the switch of the Azure Function (not what the code is)
AzureCasesEverywhere(rev) == AzureCases

SwitchCases(rev) == IF rev = "part_000" THEN AzureCases ELSE NextJsCases

\* switch(documentType): the rule set of the first case whose label is strictly
\* equal to documentType, "default" when there is none
RuleSetFor(rev, documentType) ==
    LET hits == {k \in 1..Len(SwitchCases(rev)) : SwitchCases(rev)[k][1] = documentType}
    IN  IF hits = {} THEN "default"
        ELSE SwitchCases(rev)[CHOOSE k \in hits : \A j \in hits : k <= j][2]

\* a default branch that keeps the shape of the other results (not what the code does)
UnknownTypeWithName ==
    [missingElements |-> <<"Unknown document type">>,
     suggestedActions |-> <<"Select a valid document type and try again">>,
     detectedOrganizationName |-> Null]

\* the default branch, the same in the three revisions
UnknownType ==
    [missingElements |-> <<"Unknown document type">>,
     suggestedActions |-> <<"Select a valid document type and try again">>,
     detectedOrganizationName |-> Absent]

\* a switch that sends every document type to the manual tax clearance rule set
\* (not what the code does)
MisroutedValidate(options, now) ==
    validateTaxClearanceManual(options.content, options.contentLower, options.keyValuePairs,
                               options.formFields, now)

\* validateDocumentByType(options) of the Azure Function, with now what new Date()
\* returns during the call
validateDocumentByType(options, now) ==
    LET chosen == RuleSetFor("part_000", options.documentType)
        content == options.content
        contentLower == options.contentLower
        keyValuePairs == options.keyValuePairs
        formFields == options.formFields
    IN  CASE chosen = "validateTaxClearanceOnline" ->
                 validateTaxClearanceOnline(content, contentLower, keyValuePairs, formFields, now)
          [] chosen = "validateTaxClearanceManual" ->
                 validateTaxClearanceManual(content, contentLower, keyValuePairs, formFields, now)
          [] chosen = "validateCertificateAlternativeName" ->
                 validateCertificateAlternativeName(content, contentLower, keyValuePairs, formFields)
          [] chosen = "validateCertificateOfTradeName" ->
                 validateCertificateOfTradeName(content, contentLower, keyValuePairs)
          [] chosen = "validateCertificateOfFormation" ->
                 validateCertificateOfFormation(content, contentLower, keyValuePairs, formFields)
          [] chosen = "validateCertificateOfFormationIndependent" ->
                 validateCertificateOfFormationIndependent(content, contentLower, keyValuePairs,
                                                           formFields)
          [] chosen = "validateOperatingAgreement" ->
                 validateOperatingAgreement(content, contentLower, keyValuePairs, formFields)
          [] chosen = "validateCertificateOfIncorporation" ->
                 validateCertificateOfIncorporation(content, contentLower, keyValuePairs, formFields)
          [] chosen = "validateIRSDeterminationLetter" ->
                 validateIRSDeterminationLetter(content, contentLower, keyValuePairs)
          [] chosen = "validateBylaws" -> validateBylaws(content, contentLower, keyValuePairs)
          [] chosen = "validateCertificateOfAuthority" ->
                 validateCertificateOfAuthority(content, contentLower, keyValuePairs, formFields)
          [] OTHER -> UnknownType

(***************************************************************************)
(* Inputs of the organization-name calls                                   *)
(***************************************************************************)
\* how many of CoreNames are used as core names
NumCores == 2

\* how many tokens a free-form name is made of, at most
MaxTokens == 3

CoreNames == <<"Acme", "Beta Coast", "Co-op Mart", "Smith, Jones", "A.B. Supply">>

Cores == {CoreNames[i] : i \in 1..NumCores}

\* entity suffixes as users write them
SuffixForms ==
    { "", "LLC", "Inc.", "Corp", "Co", "Ltd", "LP", "LLP", "PLLC", "PC", "PA", "PLC",
      "Company LLC", "Limited Liability Company", "Corporation", "Incorporated" }

Compose(core, suffix) ==
    IF suffix = "" THEN core ELSE IF core = "" THEN suffix ELSE core \o " " \o suffix

ComposedNames == {Compose(c, x) : c \in Cores, x \in SuffixForms}

SpecialNames == {"", ",", " . ", "LLC Acme", "Acme Holdings"}

PairNames == {Str(n) : n \in ComposedNames \cup SpecialNames} \cup {Null}

\* the first letter of every word in upper case
RECURSIVE TitleCase(_, _)
TitleCase(s, atStart) ==
    IF s = "" THEN ""
    ELSE LET c == CharAt(s, 1)
         IN  (IF atStart /\ c \in LowerSet THEN UpperOf[c] ELSE c)
                 \o TitleCase(SubSeq(s, 2, Len(s)), c = " ")

CaseVariants(s) == {s, toUpperCase(s), TitleCase(s, TRUE)}

AbbrevCores == Cores \cup {"", "Coast Co", "Smith, Jones & Co."}

\* X + " " + abbreviation against X + " " + full form, in any letter case, with or
\* without a period after the abbreviation
AbbrevPairs ==
    UNION { { <<Str(x \o " " \o a \o dot), Str(x \o " " \o f)>> :
                a \in CaseVariants(abbreviationMap[k][1]),
                f \in CaseVariants(abbreviationMap[k][2]),
                dot \in {"", "."} } :
            x \in AbbrevCores, k \in 1..Len(abbreviationMap) }

Tokens == {"Coast", "co.", "L.L.C", " ", "\t", ",", ".", ";", "-"}

RECURSIVE TokenStrings(_)
TokenStrings(k) ==
    IF k = 0 THEN {""}
    ELSE {t \o r : t \in Tokens, r \in TokenStrings(k - 1)}

FreeFormNames == UNION {TokenStrings(k) : k \in 0..MaxTokens}

NameInputs ==
    (PairNames \X PairNames) \cup AbbrevPairs \cup {<<Str(n), Null>> : n \in FreeFormNames}

(***************************************************************************)
(* The organization-name calls as a state machine                          *)
(***************************************************************************)
(***************************************************************************)
(* Inputs of the date check: the clock and the document text               *)
(***************************************************************************)
NumNows == 4

\* the local dates the clock is read at (month 0-11)
NowDates ==
    << [year |-> 2024, month |-> 6, date |-> 1],
       [year |-> 2024, month |-> 7, date |-> 31],
       [year |-> 2024, month |-> 2, date |-> 15],
       [year |-> 2024, month |-> 9, date |-> 3],
       [year |-> 2024, month |-> 11, date |-> 10],
       [year |-> 2025, month |-> 0, date |-> 31] >>

\* midnight and noon
DayMinutes == {0, 720}

ClockAt(i, t) ==
    [year |-> NowDates[i].year, month |-> NowDates[i].month, date |-> NowDates[i].date,
     minutes |-> t]

Clocks == {ClockAt(i, t) : i \in 1..NumNows, t \in DayMinutes}

RECURSIVE Numeral(_)
Numeral(n) ==
    IF n < 10 THEN CharAt(Digits, n + 1)
    ELSE Numeral(n \div 10) \o CharAt(Digits, (n % 10) + 1)

Pad2(n) == IF n < 10 THEN "0" \o Numeral(n) ELSE Numeral(n)

Capitalize(w) == toUpperCase(SubSeq(w, 1, 1)) \o SubSeq(w, 2, Len(w))

\* the calendar date six calendar months before the clock's date, on the last
\* day of the month when the month is too short
SixMonthsBefore(c) ==
    LET y == IF c.month >= 6 THEN c.year ELSE c.year - 1
        m == (c.month + 6) % 12
    IN  [year |-> y, month |-> m,
         date |-> IF c.date > DaysInMonth(y, m) THEN DaysInMonth(y, m) ELSE c.date]

\* the calendar date before d
DayBefore(d) ==
    IF d.date > 1 THEN [d EXCEPT !.date = d.date - 1]
    ELSE IF d.month > 0
         THEN [d EXCEPT !.month = d.month - 1, !.date = DaysInMonth(d.year, d.month - 1)]
         ELSE [year |-> d.year - 1, month |-> 11, date |-> 31]

\* "January 1, 2024", "01/01/2024", "1 January 2024" and "1st day of January, 2024"
MonthFirstText(d) ==
    Capitalize(monthNames[d.month + 1]) \o " " \o Numeral(d.date) \o ", " \o Numeral(d.year)

MonthDayYearText(d) == Pad2(d.month + 1) \o "/" \o Pad2(d.date) \o "/" \o Numeral(d.year)

DayFirstText(d) ==
    Numeral(d.date) \o " " \o Capitalize(monthNames[d.month + 1]) \o " " \o Numeral(d.year)

OrdinalText(d) ==
    Numeral(d.date) \o "th day of " \o Capitalize(monthNames[d.month + 1]) \o ", "
        \o Numeral(d.year)

\* the two dates at the far end of the window, in every notation
BoundaryTexts(c) ==
    UNION {{MonthFirstText(d), MonthDayYearText(d), DayFirstText(d), OrdinalText(d)} :
           d \in {SixMonthsBefore(c), DayBefore(SixMonthsBefore(c))}}

DateParts == {1, 2, 3, 4, 9, 12, 13, 14, 15, 28, 29, 30, 31}

DocYears == {2023, 2024}

NumericTexts ==
    UNION {{Pad2(a) \o sep \o Pad2(b) \o sep \o Numeral(y) : sep \in DateSeparators}
           \cup {Numeral(a) \o "/" \o Numeral(b) \o "/" \o Numeral(y),
                 "Issued " \o Numeral(a) \o "/" \o Numeral(b) \o "/" \o Numeral(y)} :
           a \in DateParts, b \in DateParts, y \in DocYears}

NamedDays == {1, 2, 3, 14, 15, 28, 29, 30, 31}

NamedMonthTexts ==
    UNION {{MonthFirstText(d), DayFirstText(d), OrdinalText(d)} :
           d \in [year : DocYears, month : 0..11, date : NamedDays]}

RECURSIVE Repeat(_, _)
Repeat(s, n) == IF n = 0 THEN "" ELSE s \o Repeat(s, n - 1)

\* old dates in front of a date of June 2024, up to and beyond the number of
\* matches the check looks at
CrowdedTexts ==
    {Repeat("01/01/2000 ", n) \o "06/15/2024" : n \in {NumericMatchCap - 1, NumericMatchCap}}
    \cup {Repeat("May 1, 2000 ", n) \o "June 15, 2024" : n \in {WrittenMatchCap - 1, WrittenMatchCap}}
    \cup {Repeat("1st day of May, 2000 ", n) \o "15th day of June, 2024" :
          n \in {OrdinalMatchCap - 1, OrdinalMatchCap}}

OtherTexts ==
    {"", "no date", "This letter bears no date at all.", "02/30/2024", "2/30/2024",
     "00/00/2024 ", "06/15/0024", "15th day of Juno, 2024", "JUNE 15TH,  2024",
     "June 15th2024", "115/06/2024", "06/15/24 and 6.15-2024"}

\* dates with a year of two digits in front of a date of June 2024, and a day number that
\* no month has
LooseTexts ==
    {Repeat("01/02/20 ", n) \o "06/15/2024" : n \in {NumericMatchCap - 1, NumericMatchCap}}
    \cup {"01/45/2024"}

DateTexts == NumericTexts \cup NamedMonthTexts \cup CrowdedTexts \cup LooseTexts \cup OtherTexts

(***************************************************************************)
(* Inputs of validateDocumentByType                                        *)
(***************************************************************************)
MaxCalls == 2

NumDocuments == 12

NumFieldCases == 4

\* the 14 tags the user interface of the Next.js revisions offers, and strings
\* that are no tag
DocumentTypes ==
    {NextJsCases[k][1] : k \in 1..Len(NextJsCases)}
    \cup {"", "not-a-real-type", "Bylaws", "bylaws "}

Documents ==
    << "State of New Jersey\nDepartment of the Treasury\nDivision of Taxation\nACME LLC\nBUSINESS ASSISTANCE OR INCENTIVE CLEARANCE CERTIFICATE\nApplicant ID#: 123-456\nSerial# 12345\nJune 15, 2024\nActing Director",
       "STATE OF NEW JERSEY\nDEPARTMENT OF THE TREASURY\nDIVISION OF TAXATION\nATTN: Records\n03/04/2024\nBeta Coast Inc\nClearance Certificate BATC - Manual\nCLEARANCE CERTIFICATE\nApplicant  Id :\n 777-001 \nJohn J.  Ficara, Director of Taxation",
       "NEW JERSEY DEPARTMENT OF THE TREASURY\nDIVISION OF REVENUE\nCERTIFICATE OF FORMATION\n\n01/15/2020\nAcme Holdings\nACME LLC\nFiled 01/15/2020\nSigned: State Treasurer\nVerify this certificate online",
       "Certificate of Formation\nThe name of the limited liability company is Acme Limited Liability Company \r\nFILED Jan 2 2020\nOrganizer",
       "Division of Revenue\nCERTIFICATE OF ALTERNATE NAME\nState of New Jersey\nAcme Trading\nbeta coast co.\nGreat Seal at Trenton",
       "STATE OF NEW JERSEY\nDIVISION OF TAXATION\nCERTIFICATE OF AUTHORITY\nTax Registration No 1\nAcme\nBeta Coast Incorporated\nDate Issued 5-6-21",
       "OPERATING AGREEMENT of Acme LLC, a New Jersey company.\nDated: as of the 3rd day of May, 2021\n____ Name  s/ A. Member",
       "Certificate of Inc.\nThe Incorporators and the Board of Directors",
       "Internal Revenue Service\nDepartment of the Treasury\nSincerely,\nDirector, Exempt Organizations",
       "BY-LAWS of Acme Inc.\nAdopted 2019 by the Trustees",
       "Certificate of Trade Name",
       "",
       "The above-named Big Tree LLC was registered.\nEntity Name\nNJ Environmental Protection 12/2020",
       "name: \nand nothing else 1/2/03" >>

EmptyFields == [organizationName |-> Str(""), fein |-> Str("")]

\* the key-value pairs of the analysis result together with the fields of the form
FieldCases ==
    << [keyValuePairs |-> <<>>, formFields |-> EmptyFields],
       [keyValuePairs |-> <<>>,
        formFields |-> [organizationName |-> Str("Acme, L.L.C."), fein |-> Str("12-3456456")]],
       [keyValuePairs |->
            << [key |-> Str("Taxpayer Name"),
                value |-> [present |-> TRUE, content |-> Str("Beta Coast Inc.")]],
               [key |-> Str("Applicant ID #"),
                value |-> [present |-> TRUE, content |-> Str("987-654")]],
               [key |-> Str(" Name: "),
                value |-> [present |-> TRUE, content |-> Str("acme llc")]] >>,
        formFields |-> [organizationName |-> Str("Beta Coast Corporation"), fein |-> Str("acme")]],
       [keyValuePairs |->
            << [key |-> Undefined, value |-> [present |-> FALSE, content |-> Undefined]],
               [key |-> Str("applicant"), value |-> [present |-> TRUE, content |-> Undefined]],
               [key |-> Str("Id #"), value |-> [present |-> FALSE, content |-> Undefined]] >>,
        formFields |-> [organizationName |-> Str("Acme Inc"), fein |-> Str("54")]],
       [keyValuePairs |->
            << [key |-> Str("Business Name"), value |-> [present |-> TRUE, content |-> Str("")]] >>,
        formFields |-> [organizationName |-> Undefined, fein |-> Str("000123")]] >>

Requests ==
    {[documentType |-> t, content |-> Documents[d],
      keyValuePairs |-> FieldCases[f].keyValuePairs, formFields |-> FieldCases[f].formFields] :
         t \in DocumentTypes, d \in 1..NumDocuments, f \in 1..NumFieldCases}

\* for the switch of the Next.js revisions only the document type matters
SwitchRequests ==
    {[documentType |-> t, content |-> Documents[1], keyValuePairs |-> <<>>,
      formFields |-> EmptyFields] : t \in DocumentTypes}

(***************************************************************************)
(* The calls, one group of variables each; the other groups stay idle      *)
(***************************************************************************)
IdleNames ==
    /\ name1 = Null
    /\ name2 = Null
    /\ namePhase = "idle"
    /\ normalized = ""
    /\ matchResult = FALSE

IdleDates ==
    /\ dateText = ""
    /\ datePhase = "idle"
    /\ dateResult = FALSE

IdleClock == clock = [year |-> 2024, month |-> 6, date |-> 1, minutes |-> 0]

IdleValidate ==
    /\ revision = "part_000"
    /\ request = [documentType |-> "", content |-> "", keyValuePairs |-> <<>>,
                  formFields |-> [organizationName |-> Str(""), fein |-> Str("")]]
    /\ calls = 0
    /\ readAt = <<>>
    /\ results = <<>>
    /\ ruleSet = "none"

\* context.res before the handler has set a status
NoResponse == [status |-> 0]

IdleRace ==
    /\ timer = "unset"
    /\ elapsed = 0
    /\ processing = "idle"
    /\ contextRes = NoResponse

IdleUpload ==
    /\ tempDir = {}
    /\ uploads = <<>>

\* the state of the component after its first render and effects (part_008 lines
\* 510-530, 572-601)
NoFile == [type |-> "null", name |-> "", mime |-> "", size |-> 0]

\* no validationResult; a result carries the payload of the request it answers
NoResult == [type |-> "null", documentType |-> "", fileName |-> ""]

MountedUi ==
    [file |-> NoFile, documentType |-> "tax-clearance-online",
     formFields |-> [organizationName |-> "", fein |-> ""],
     requiredFields |-> [organizationName |-> TRUE, fein |-> TRUE],
     validationResult |-> NoResult, error |-> [type |-> "null", val |-> ""],
     isUploading |-> FALSE]

IdleClient ==
    /\ pending = <<>>
    /\ ui = MountedUi
    /\ fetches = {}

IdleService ==
    /\ submissions = <<>>
    /\ responses = <<>>
    /\ IdleRace
    /\ IdleUpload
    /\ IdleClient

InitNames ==
    /\ \E p \in NameInputs : name1 = p[1] /\ name2 = p[2]
    /\ namePhase = "input"
    /\ normalized = ""
    /\ matchResult = FALSE
    /\ IdleDates
    /\ IdleClock
    /\ IdleValidate
    /\ IdleService

CallNormalize ==
    /\ namePhase = "input"
    /\ normalized' = normalizeOrganizationName(name1)
    /\ namePhase' = "normalized"
    /\ UNCHANGED <<name1, name2, matchResult, dateVars, validateVars, serviceVars>>

CallMatch ==
    /\ namePhase = "input"
    /\ matchResult' = organizationNamesMatch(name1, name2)
    /\ namePhase' = "matched"
    /\ UNCHANGED <<name1, name2, normalized, dateVars, validateVars, serviceVars>>

NextNames == CallNormalize \/ CallMatch

SpecNames == InitNames /\ [][NextNames]_vars

InitDates ==
    /\ clock \in Clocks
    /\ dateText \in DateTexts \cup BoundaryTexts(clock)
    /\ datePhase = "input"
    /\ dateResult = FALSE
    /\ IdleNames
    /\ IdleValidate
    /\ IdleService

CallCheckDate ==
    /\ datePhase = "input"
    /\ dateResult' = checkDateWithinSixMonths(dateText, clock)
    /\ datePhase' = "checked"
    /\ UNCHANGED <<clock, dateText, nameVars, validateVars, serviceVars>>

NextDates == CallCheckDate

SpecDates == InitDates /\ [][NextDates]_vars

\* the clock of the validation calls: noon of 1 July 2024 and of 31 January 2025
ValidateClocks == {ClockAt(1, 720), ClockAt(Len(NowDates), 720)}

InitValidate ==
    /\ revision \in Revisions
    /\ request \in (IF revision = "part_000" THEN Requests ELSE SwitchRequests)
    /\ calls = 0
    /\ readAt = <<>>
    /\ results = <<>>
    /\ ruleSet = "none"
    /\ clock \in ValidateClocks
    /\ IdleDates
    /\ IdleNames
    /\ IdleService

\* time passes
Tick ==
    /\ calls < MaxCalls
    /\ \E c \in ValidateClocks : ~NotAfter(Now(c), Now(clock)) /\ clock' = c
    /\ UNCHANGED <<dateText, datePhase, dateResult, nameVars, validateVars, serviceVars>>

\* a call of validateDocumentByType of the Azure Function with the request, as
\* the handler makes it (lines 1315-1332)
CallValidate ==
    /\ revision = "part_000"
    /\ calls < MaxCalls
    /\ calls' = calls + 1
    /\ readAt' = Append(readAt, clock)
    /\ ruleSet' = RuleSetFor(revision, request.documentType)
    /\ results' =
           Append(results,
                  validateDocumentByType(
                      [documentType |-> request.documentType,
                       content |-> request.content,
                       contentLower |-> toLowerCase(request.content),
                       keyValuePairs |-> request.keyValuePairs,
                       formFields |-> request.formFields], clock))
    /\ UNCHANGED <<revision, request, dateVars, nameVars, serviceVars>>

\* the switch of validateDocumentByType of a Next.js revision; what the rule set
\* it calls returns is outside the model, the result of the default branch is not
CallSwitch ==
    /\ revision # "part_000"
    /\ calls < MaxCalls
    /\ calls' = calls + 1
    /\ readAt' = Append(readAt, clock)
    /\ ruleSet' = RuleSetFor(revision, request.documentType)
    /\ results' = IF RuleSetFor(revision, request.documentType) = "default"
                  THEN Append(results, UnknownType)
                  ELSE results
    /\ UNCHANGED <<revision, request, dateVars, nameVars, serviceVars>>

NextValidate == Tick \/ CallValidate \/ CallSwitch

SpecValidate == InitValidate /\ [][NextValidate]_vars

(***************************************************************************)
(* The handler of the Azure Function: the request body, the analysis of    *)
(* the file by Document Intelligence, the validation and the report        *)
(***************************************************************************)
\* value || fallback, for the strings of the request body
OrDefault(value, fallback) == IF Falsy(value) THEN Str(fallback) ELSE value

MissingFile == "Missing or invalid file data. Expected base64 string."

\* parseRequestData(req), for a body that is an object: what the promise
\* resolves with, or the message of the Error it is rejected with
parseRequestData(body) ==
    IF ~body.file
    THEN [rejected |-> TRUE, message |-> MissingFile]
    ELSE [rejected |-> FALSE,
          documentType |-> OrDefault(body.documentType, "tax-clearance-online").val,
          organizationName |-> OrDefault(body.organizationName, ""),
          fein |-> OrDefault(body.fein, "")]

\* element => element.includes("Organization name doesn't match")
MentionsNameMismatch(missingElements) ==
    \E k \in 1..Len(missingElements) :
        includes(missingElements[k], "Organization name doesn't match")

\* a report that never says the names differ (not what the code does)
AlwaysMatchesReport(documentType, validationResults) ==
    [status |-> 200,
     success |-> Len(validationResults.missingElements) = 0,
     missingElements |-> validationResults.missingElements,
     suggestedActions |-> validationResults.suggestedActions,
     documentType |-> documentType,
     detectedOrganizationName |->
         IF Falsy(validationResults.detectedOrganizationName) THEN Null
         ELSE validationResults.detectedOrganizationName,
     organizationNameMatches |-> TRUE]

\* status and body of the response with the validation report (lines 1337-1363)
ValidationReport(documentType, validationResults) ==
    [status |-> 200,
     success |-> Len(validationResults.missingElements) = 0,
     missingElements |-> validationResults.missingElements,
     suggestedActions |-> validationResults.suggestedActions,
     documentType |-> documentType,
     detectedOrganizationName |->
         IF Falsy(validationResults.detectedOrganizationName) THEN Null
         ELSE validationResults.detectedOrganizationName,
     organizationNameMatches |-> ~MentionsNameMismatch(validationResults.missingElements)]

\* status and body of the response of the catch block (lines 1369-1381)
ErrorResponse(message) ==
    IF message = "Processing timeout"
    THEN [status |-> 504, error |-> "Request timed out. Document processing took too long."]
    ELSE [status |-> 500,
          error |-> IF message = "" THEN "Failed to validate document" ELSE message]

\* processingPromise() for a submission: the body of the request and what
\* Document Intelligence finds in its file; now is what new Date() returns
processingPromise(submission, now) ==
    LET Validated(parsed, result) ==
            IF parsed.rejected THEN ErrorResponse(parsed.message)
            ELSE ValidationReport(
                     parsed.documentType,
                     validateDocumentByType(
                         [documentType |-> parsed.documentType,
                          content |-> result.content,
                          contentLower |-> toLowerCase(result.content),
                          keyValuePairs |-> result.keyValuePairs,
                          formFields |-> [organizationName |-> parsed.organizationName,
                                          fein |-> parsed.fein]], now))
    IN  Validated(parseRequestData(submission.body), submission.result)

(***************************************************************************)
(* Requests to the function: the body and the analysis result of its file  *)
(***************************************************************************)
Pair(key, value) == [key |-> Str(key), value |-> [present |-> TRUE, content |-> Str(value)]]

Submission(documentType, organizationName, fein, content, keyValuePairs) ==
    [body |-> [file |-> TRUE, documentType |-> documentType,
               organizationName |-> organizationName, fein |-> fein],
     result |-> [content |-> content, keyValuePairs |-> keyValuePairs]]

\* the clock of the requests: noon of 1 July 2024 and of 31 August 2024
ServiceClocks == {ClockAt(1, 720), ClockAt(2, 720)}

\* an online tax clearance certificate with every required phrase; the name
\* above the title, the spelling of the title, the applicant ID, the date and
\* a second agency vary
OnlineCertificate(nameLine, title, idLine, dateLine, agencyLine) ==
    "State of New Jersey\nDepartment of the Treasury\nDivision of Taxation\n" \o nameLine
        \o title \o "\n" \o idLine \o "Serial# 12345\n" \o dateLine \o "\n" \o agencyLine
        \o "Acting Director"

OnlineNameLines == {"", "ACME LLC\n", "Beta Coast Inc\n"}

OnlineTitles == {"Clearance Certificate", "BUSINESS ASSISTANCE OR INCENTIVE CLEARANCE CERTIFICATE"}

OnlineIdLines == {"", "Applicant ID#: 123-456-789\n"}

OnlineAgencyLines == {"", "Department of Environmental Protection\n"}

OnlinePairs ==
    { <<>>,
      <<Pair("Applicant ID", "123-456-789")>>,
      <<Pair("Taxpayer Name", "Acme LLC"), Pair("Id #", "000789")>> }

\* today, the first day of the window, the day before it, and a day in it
OnlineDates(c) ==
    { [year |-> c.year, month |-> c.month, date |-> c.date],
      SixMonthsBefore(c),
      DayBefore(SixMonthsBefore(c)),
      [year |-> c.year, month |-> c.month - 2, date |-> 15] }

OnlineDateLines(c) == UNION {{MonthFirstText(d), MonthDayYearText(d)} : d \in OnlineDates(c)}

\* the fully compliant online certificates of the scenario and their neighbours
OnlinePlans(c) ==
    { << Submission(Str("tax-clearance-online"), Str("Acme LLC"), Str("123456789"),
                    OnlineCertificate(n, t, i, d, a), p) >> :
          n \in OnlineNameLines, t \in OnlineTitles, i \in OnlineIdLines,
          d \in OnlineDateLines(c), a \in OnlineAgencyLines, p \in OnlinePairs }

\* the function handles the next request: processingPromise wins the race
\* and context.res is the response
Handle ==
    /\ Len(responses) < Len(submissions)
    /\ responses' = Append(responses, processingPromise(submissions[Len(responses) + 1], clock))
    /\ UNCHANGED <<submissions, raceVars, uploadVars, clientVars, nameVars, dateVars, validateVars>>

NextService == Handle

\* the requests are drawn before the first is handled
InitService(plans) ==
    /\ submissions \in plans
    /\ responses = <<>>
    /\ IdleRace
    /\ IdleUpload
    /\ IdleClient
    /\ IdleDates
    /\ IdleNames
    /\ IdleValidate

InitOnline == clock \in ServiceClocks /\ InitService(OnlinePlans(clock))

SpecOnline == InitOnline /\ [][NextService]_vars

\* documentType of the body: a tag, another string, or no property at all
BodyTypes == {Str(t) : t \in DocumentTypes} \cup {Undefined}

\* organizationName and fein of the body: not sent, empty, or filled in
BodyNames == {Undefined, Null, Str(""), Str("Acme LLC"), Str("Beta Coast Inc")}

BodyFeins == {Undefined, Null, Str(""), Str("89"), Str("123456789")}

\* a file in which Document Intelligence finds no text and no key-value pair
EmptyPlans ==
    { << Submission(t, o, f, "", <<>>) >> : t \in BodyTypes, o \in BodyNames, f \in BodyFeins }

InitEmpty == clock \in ServiceClocks /\ InitService(EmptyPlans)

SpecEmpty == InitEmpty /\ [][NextService]_vars

\* how many of the NameDocuments are submitted
NumNameDocuments == 7

\* documents of the several types that show the name of an organization
NameDocuments(name) ==
    << "State of New Jersey\nDepartment of the Treasury\nDivision of Taxation\n" \o name
           \o "\nBUSINESS ASSISTANCE OR INCENTIVE CLEARANCE CERTIFICATE\nApplicant ID#: 123-456\nSerial# 12345\nJune 15, 2024\nActing Director",
       "NEW JERSEY DEPARTMENT OF THE TREASURY\nDIVISION OF REVENUE\nCERTIFICATE OF FORMATION\n\n01/15/2020\n"
           \o name \o "\nFiled 01/15/2020\nSigned: State Treasurer\nVerify this certificate online",
       "Certificate of Formation\nThe name of the limited liability company is " \o name
           \o " \r\nFILED Jan 2 2020\nOrganizer",
       "Division of Revenue\nCERTIFICATE OF ALTERNATE NAME\nState of New Jersey\n" \o name
           \o "\nGreat Seal at Trenton",
       "STATE OF NEW JERSEY\nDIVISION OF TAXATION\nCERTIFICATE OF AUTHORITY\nTax Registration No 1\n"
           \o name \o "\nDate Issued 5-6-21",
       "STATE OF NEW JERSEY\nDEPARTMENT OF THE TREASURY\nDIVISION OF TAXATION\n03/04/2024\n" \o name
           \o "\nBATC - Manual\nCLEARANCE CERTIFICATE\nApplicant  Id :\n 777-001 \nJohn J.  Ficara",
       "Certificate of Formation\nThe above-named " \o name \o " was filed and signed.",
       "OPERATING AGREEMENT of " \o name \o ", a New Jersey company.\nDated: May 3, 2021\nSignature" >>

PrintedNames == {"Beta Corporation", "ACME LLC", "ient Co"}

\* key-value pairs that name the organization, or none
NamePairs == { <<>>, <<Pair("Name:", "Beta Corporation")>> }

\* what the form sends as the name of the organization
EnteredNames == {Undefined, Str(""), Str("Beta LLC"), Str("Acme LLC")}

NamedTypes == {AzureCases[k][1] : k \in 1..Len(AzureCases)}

\* a request of every dispatched type for every document that shows a name
NamePlans ==
    { << Submission(Str(t), o, Str(""), NameDocuments(n)[d], p) >> :
          t \in NamedTypes, o \in EnteredNames, n \in PrintedNames,
          d \in 1..NumNameDocuments, p \in NamePairs }

InitNamed == clock = ClockAt(1, 720) /\ InitService(NamePlans)

SpecNamed == InitNamed /\ [][NextService]_vars

\* a document submitted twice for the same type, the second time in another letter case
CasePair(documentType, content, recased) ==
    << Submission(Str(documentType), Str(""), Str(""), content, <<>>),
       Submission(Str(documentType), Str(""), Str(""), recased, <<>>) >>

CasePlans ==
    UNION { { CasePair(t, Documents[d], toUpperCase(Documents[d])),
              CasePair(t, Documents[d], toLowerCase(Documents[d])) } :
                t \in NamedTypes, d \in 1..NumDocuments }

InitCases == clock = ClockAt(1, 720) /\ InitService(CasePlans)

SpecCases == InitCases /\ [][NextService]_vars

\* pairs of FEINs of at least 3 characters that end in the same 3 characters
FeinPairs == { <<"123456789", "000456789">>, <<"789", "456789">>, <<"12-3456456", "456">> }

\* documents with an applicant ID, with a name, and with neither
FeinDocuments ==
    { Documents[1], Documents[2], Documents[4], Documents[12],
      NameDocuments("Studio 789 LLC")[3], NameDocuments("ACME LLC")[1] }

\* a document submitted twice with FEINs that end alike
FeinPlans ==
    { << Submission(Str(t), Str("Acme LLC"), Str(f[1]), d, p),
         Submission(Str(t), Str("Acme LLC"), Str(f[2]), d, p) >> :
          t \in NamedTypes, f \in FeinPairs, d \in FeinDocuments,
          p \in {<<>>, <<Pair("Applicant ID #", "987-654")>>} }

InitFeins == clock = ClockAt(1, 720) /\ InitService(FeinPlans)

SpecFeins == InitFeins /\ [][NextService]_vars

\* the name and the FEIN of the form: each absent, null, empty or filled in
OptionalFields ==
    { <<Undefined, Undefined>>, <<Null, Null>>, <<Str(""), Str("")>>,
      <<Str("Beta LLC"), Undefined>>, <<Undefined, Str("999")>>, <<Str("Beta LLC"), Str("999")>> }

\* no key-value pairs, pairs with a name and an ID, and pairs without key or value
OptionalPairs == {<<>>, FieldCases[3].keyValuePairs, FieldCases[4].keyValuePairs}

\* requests that leave out the name or the FEIN, for documents that show a name and an ID
OptionalPlans ==
    { << Submission(Str(t), f[1], f[2], NameDocuments("ACME LLC")[d], p) >> :
          t \in NamedTypes, f \in OptionalFields, d \in 1..NumNameDocuments, p \in OptionalPairs }

InitOptional == clock = ClockAt(1, 720) /\ InitService(OptionalPlans)

SpecOptional == InitOptional /\ [][NextService]_vars

\* tax clearance certificates that differ in the lines the two rule sets treat differently
TaxCertificate(stateLine, markerLine, serialLine, signatureLine) ==
    stateLine \o "\nDepartment of the Treasury\nDivision of Taxation\nACME LLC\n"
        \o "BUSINESS ASSISTANCE OR INCENTIVE CLEARANCE CERTIFICATE\n" \o markerLine
        \o "\nApplicant ID#: 123-456\n" \o serialLine \o "\nJune 15, 2024\n" \o signatureLine

TaxCertificates ==
    { TaxCertificate(s, m, n, g) :
          s \in {"State of New Jersey", "New Jersey", "Trenton"},
          m \in {"BATC - Manual", "Manually issued", "Online"},
          n \in {"Serial# 12345", "No number"},
          g \in {"Acting Director", "Director of Taxation", "John J. Ficara", "Clerk"} }

\* a certificate submitted as tax-clearance-online and then as tax-clearance-manual
TaxPlans ==
    { << Submission(Str("tax-clearance-online"), o, Str("123456"), d, <<>>),
         Submission(Str("tax-clearance-manual"), o, Str("123456"), d, <<>>) >> :
          o \in {Str("Acme LLC"), Str("Beta LLC")}, d \in TaxCertificates }

InitTax == clock = ClockAt(1, 720) /\ InitService(TaxPlans)

SpecTax == InitTax /\ [][NextService]_vars

\* lines a scan meets: names in mixed case and in capitals, a name with an entity word, a
\* header line and a line too short to be a name
ScannedLines == {"Acme Holdings", "Beta Partners", "ACME GROUP", "Gamma Llc", "State of Mind", "Re:"}

\* three lines above the title of a tax clearance, or after the title of a formation
\* certificate
ScanDocument(documentType, first, second, third) ==
    IF documentType = "tax-clearance-online"
    THEN first \o "\n" \o second \o "\n" \o third
             \o "\nBUSINESS ASSISTANCE OR INCENTIVE CLEARANCE CERTIFICATE\nSerial# 12345"
    ELSE "Certificate of Formation\n" \o first \o "\n" \o second \o "\n" \o third \o "\nFiled"

ScanPlans ==
    { << Submission(Str(t), Str("Acme Holdings"), Undefined, ScanDocument(t, a, b, c), <<>>) >> :
          t \in {"tax-clearance-online", "cert-formation"},
          a \in ScannedLines, b \in ScannedLines, c \in ScannedLines }

InitScan == clock = ClockAt(1, 720) /\ InitService(ScanPlans)

SpecScan == InitScan /\ [][NextService]_vars

\* the types whose rule sets read no form field
FieldlessTypes ==
    {"operating-agreement", "cert-incorporation", "irs-determination", "bylaws", "cert-trade-name"}

FilledFields ==
    { <<Str("Beta LLC"), Str("999")>>, <<Str("Acme LLC"), Undefined>>, <<Null, Str("acme")>>,
      <<Str(""), Str("12-3456456")>> }

\* a document submitted without fields and again with fields filled in
FieldlessPlans ==
    { << Submission(Str(t), Undefined, Undefined, Documents[d], FieldCases[3].keyValuePairs),
         Submission(Str(t), f[1], f[2], Documents[d], FieldCases[3].keyValuePairs) >> :
          t \in FieldlessTypes, f \in FilledFields, d \in 1..NumDocuments }

InitFieldless == clock = ClockAt(1, 720) /\ InitService(FieldlessPlans)

SpecFieldless == InitFieldless /\ [][NextService]_vars

\* every dispatched type, a type the switch does not know and no type at all
AdvisedTypes == NamedTypes \cup {"cert-good-standing-long", ""}

\* a document with the key-value pairs and form fields of a field case, followed by the
\* empty document
AdvisedPlans ==
    { << Submission(Str(t), FieldCases[c].formFields.organizationName, FieldCases[c].formFields.fein,
                    Documents[d], FieldCases[c].keyValuePairs),
         Submission(Str(t), FieldCases[c].formFields.organizationName, FieldCases[c].formFields.fein,
                    "", <<>>) >> :
          t \in AdvisedTypes, d \in 1..NumDocuments, c \in 1..NumFieldCases }

InitAdvised == clock = ClockAt(1, 720) /\ InitService(AdvisedPlans)

SpecAdvised == InitAdvised /\ [][NextService]_vars

\* a request whose body has no file property (or an empty one); nothing is analysed
WithoutFile(submission) ==
    [body |-> [submission.body EXCEPT !.file = FALSE],
     result |-> [content |-> "", keyValuePairs |-> <<>>]]

\* a request with a file, then the same form sent without one
FilelessPlans ==
    { << Submission(t, o, f, Documents[d], <<>>),
         WithoutFile(Submission(t, o, f, Documents[d], <<>>)) >> :
          t \in {Str(n) : n \in FieldlessTypes} \cup {Undefined}, o \in BodyNames, f \in BodyFeins,
          d \in {7, 11} }

InitFileless == clock = ClockAt(1, 720) /\ InitService(FilelessPlans)

SpecFileless == InitFileless /\ [][NextService]_vars

(***************************************************************************)
(* Claims about the organization-name matcher                              *)
(***************************************************************************)
\* C1: organizationNamesMatch(a, b) returns the same boolean as
\* organizationNamesMatch(b, a), for every pair of names, empty and
\* punctuation-only names and names with different entity suffixes included.
MatcherSymmetric ==
    namePhase = "matched" => matchResult = organizationNamesMatch(name2, name1)

\* a matched pair with different, explicitly compatible entity suffixes
MatcherSymmetricWitness ==
    /\ namePhase = "matched"
    /\ name1 = Str("Acme Corp")
    /\ name2 = Str("Acme Inc.")
    /\ matchResult = TRUE

\* the entity type of a normalized name as the specification defines it: the
\* longest canonical entity form that ends the name
EndsWithForm(n, f) ==
    /\ Len(n) >= Len(f)
    /\ SubSeq(n, Len(n) - Len(f) + 1, Len(n)) = f
    /\ WordBoundaryBefore(n, Len(n) - Len(f) + 1)

SuffixEntityType(n) ==
    LET ends == {k \in 1..Len(entityTypes) : EndsWithForm(n, entityTypes[k])}
    IN  IF ends = {} THEN NoEntity
        ELSE entityTypes[CHOOSE k \in ends : \A j \in ends : Len(entityTypes[j]) <= Len(entityTypes[k])]

ExplicitlyCompatible(e1, e2) ==
    \/ {e1, e2} = {"corporation", "incorporated"}
    \/ {e1, e2} = {"company", "corporation"}

\* C2: organizationNamesMatch(a, b) is false whenever both normalized names
\* carry an entity type (the longest canonical entity form ending the name),
\* the two entity types differ and the pair is not one of the explicitly
\* compatible pairs {corporation, incorporated} and {company, corporation}.
IncompatibleEntityTypesNeverMatch ==
    (/\ namePhase = "matched"
     /\ ~ Falsy(name1)
     /\ ~ Falsy(name2))
    => LET e1 == SuffixEntityType(normalizeOrganizationName(name1))
           e2 == SuffixEntityType(normalizeOrganizationName(name2))
       IN  (e1 # NoEntity /\ e2 # NoEntity /\ e1 # e2 /\ ~ ExplicitlyCompatible(e1, e2))
               => matchResult = FALSE

\* C3: organizationNamesMatch(X + " " + abbreviation, X + " " + full form) is
\* true for every core name X and every pair of the abbreviation table, in any
\* letter case and with or without a period after the abbreviation.
AbbreviationMatchesFullForm ==
    (namePhase = "matched" /\ <<name1, name2>> \in AbbrevPairs) => matchResult = TRUE

AbbreviationMatchesFullFormWitness ==
    /\ namePhase = "matched"
    /\ name1 = Str("Acme LLC")
    /\ name2 = Str("Acme Limited Liability Company")
    /\ matchResult = TRUE

\* C4: normalizeOrganizationName is idempotent: normalizing a normalized name
\* returns it unchanged.
NormalizeIdempotent ==
    namePhase = "normalized" => normalizeOrganizationName(Str(normalized)) = normalized

\* a name whose abbreviations were expanded and whose punctuation was stripped
NormalizeIdempotentWitness ==
    /\ namePhase = "normalized"
    /\ name1 = Str("co. L.L.C")
    /\ normalized = "company limited liability company"

(***************************************************************************)
(* Claims about the six-month window                                       *)
(***************************************************************************)
\* the document names the calendar date d and no other date
NamesOnlyDate(text, d) == text \in {MonthFirstText(d), DayFirstText(d), OrdinalText(d)}

\* C5: whatever the day of the month and the time of day of now, a document
\* dated exactly six calendar months before now's date passes the six-month
\* window check, and a document dated six months and one day before now's
\* date fails it.
SixMonthBoundary ==
    datePhase = "checked" =>
        /\ NamesOnlyDate(dateText, SixMonthsBefore(clock)) => dateResult = TRUE
        /\ NamesOnlyDate(dateText, DayBefore(SixMonthsBefore(clock))) => dateResult = FALSE

\* month 1-12 and a day that exists in that month of that year
IsCalendarDate(year, month, date) ==
    month \in 1..12 /\ date \in 1..DaysInMonth(year, month - 1)

NoNamedMonthMatch(text) == WrittenMatches(text) = <<>> /\ OrdinalMatches(text) = <<>>

\* C6: when the check returns true on the strength of a numeric match, the
\* MM/DD/YYYY or DD/MM/YYYY reading that fell in the window is a real calendar
\* date; a match with no reading that is a real calendar date never makes the
\* check return true.
OnlyRealDatesAccepted ==
    (datePhase = "checked" /\ NoNamedMonthMatch(dateText) /\ dateResult = TRUE) =>
        \E k \in 1..Len(NumericMatches(dateText)) :
            LET m == NumericMatches(dateText)[k]
            IN  \/ /\ IsCalendarDate(m.p3, m.p1, m.p2)
                   /\ WithinWindow(NewDate(m.p3, m.p1 - 1, m.p2), clock)
                \/ /\ IsCalendarDate(m.p3, m.p2, m.p1)
                   /\ WithinWindow(NewDate(m.p3, m.p2 - 1, m.p1), clock)

\* the calendar date is no earlier than six calendar months before now's date
\* and no later than now's date
InCalendarWindow(year, month, date, c) ==
    /\ IsCalendarDate(year, month, date)
    /\ MakeDay(year, month - 1, date) >=
           MakeDay(SixMonthsBefore(c).year, SixMonthsBefore(c).month, SixMonthsBefore(c).date)
    /\ MakeDay(year, month - 1, date) <= MakeDay(c.year, c.month, c.date)

\* C7: for a text whose one numeric date match has at least one of its
\* MM/DD/YYYY and DD/MM/YYYY readings inside the window, the six-month window
\* check returns true, whether or not the other reading is inside it.
EitherReadingSuffices ==
    (/\ datePhase = "checked"
     /\ Len(dateText) >= MinContentLength
     /\ Len(NumericMatches(dateText)) = 1
     /\ LET m == NumericMatches(dateText)[1]
        IN  \/ InCalendarWindow(m.p3, m.p1, m.p2, clock)
            \/ InCalendarWindow(m.p3, m.p2, m.p1, clock))
    => dateResult = TRUE

(***************************************************************************)
(* Claims about validateDocumentByType                                     *)
(***************************************************************************)
TaxClearanceTypes == {"tax-clearance-online", "tax-clearance-manual"}

RecognizedTags ==
    {"tax-clearance-online", "tax-clearance-manual", "cert-alternative-name",
     "cert-trade-name", "cert-formation", "cert-formation-independent",
     "cert-good-standing-long", "cert-good-standing-short", "operating-agreement",
     "cert-incorporation", "irs-determination", "bylaws", "cert-authority",
     "cert-authority-auto"}

\* the three of them the Azure Function has no case for
NextJsOnlyTags == {"cert-good-standing-long", "cert-good-standing-short", "cert-authority-auto"}

\* the call ended in the "Unknown document type" outcome
UnknownOutcome ==
    /\ ruleSet = "default"
    /\ \A k \in 1..Len(results) :
           \E e \in 1..Len(results[k].missingElements) :
               results[k].missingElements[e] = "Unknown document type"

\* the call was dispatched to a rule set and did not end in that outcome
Dispatched ==
    /\ ruleSet \notin {"none", "default"}
    /\ \A k \in 1..Len(results) :
           \A e \in 1..Len(results[k].missingElements) :
               results[k].missingElements[e] # "Unknown document type"

\* C9 as the specification states it: each of the 14 tags is dispatched to a
\* rule set and never yields the "Unknown document type" outcome; every other
\* string yields that outcome.
FourteenTagsDispatched ==
    calls >= 1 =>
        IF request.documentType \in RecognizedTags THEN Dispatched ELSE UnknownOutcome

\* C9: the Next.js revisions dispatch each of the 14 tags to a rule set; the
\* Azure Function dispatches the 11 of them other than cert-good-standing-long,
\* cert-good-standing-short and cert-authority-auto, and for these three it
\* yields the "Unknown document type" outcome; in every revision a dispatched
\* tag never yields that outcome and every string that is none of the 14 tags
\* yields it.
TagsDispatchedByRevision ==
    calls >= 1 =>
        IF /\ request.documentType \in RecognizedTags
           /\ ~ (revision = "part_000" /\ request.documentType \in NextJsOnlyTags)
        THEN Dispatched
        ELSE UnknownOutcome

\* the Azure Function called with a tag only the Next.js revisions have a case for
TagsDispatchedByRevisionWitness ==
    /\ revision = "part_000"
    /\ calls = 1
    /\ request.documentType = "cert-good-standing-long"
    /\ ruleSet = "default"
    /\ results[1].missingElements = <<"Unknown document type">>

\* C10: for every documentType that is none of the recognized tags, whatever
\* the content and the fields, validateDocumentByType returns exactly
\* missingElements ["Unknown document type"] and suggestedActions with the one
\* fixed action, and no organization-name field.
UnknownTypeOutcome ==
    request.documentType \notin RecognizedTags =>
        /\ Len(results) = calls
        /\ \A k \in 1..Len(results) :
               results[k] = [missingElements |-> <<"Unknown document type">>,
                             suggestedActions |-> <<"Select a valid document type and try again">>,
                             detectedOrganizationName |-> Absent]

\* a complete tax clearance certificate with matching fields sent under a
\* document type that is no tag
UnknownTypeOutcomeWitness ==
    /\ revision = "part_000"
    /\ calls = 1
    /\ request.documentType = "not-a-real-type"
    /\ request.content = Documents[1]
    /\ request.formFields.organizationName = Str("Acme, L.L.C.")
    /\ results[1].missingElements = <<"Unknown document type">>
    /\ results[1].detectedOrganizationName = Absent

(***************************************************************************)
(* The race of the handler between the processing and its timeout          *)
(***************************************************************************)
\* setTimeout(..., 50000), in units of 10 seconds
Deadline == 5

\* how long a request is followed, in units of 10 seconds
MaxElapsed == 7

\* the host answers with what context.res holds when the handler returns (not what it does)
ReturnedLatest(sent, res) == <<res>>

\* the host answers the request once, with context.res as the handler's return leaves it
Returned(sent, res) == IF sent = <<>> THEN <<res>> ELSE sent

\* requests whose analysis takes an unknown time
RacePlans ==
    { << Submission(Str(t), Str("Acme LLC"), Str(""), Documents[d], <<>>) >> :
          t \in {"tax-clearance-online", "cert-formation", "bylaws"}, d \in {1, 3, 10} }

\* the handler arms the timer and calls processingPromise()
StartRace ==
    /\ timer = "unset"
    /\ timer' = "armed"
    /\ processing' = "running"
    /\ elapsed' = 0
    /\ UNCHANGED <<submissions, responses, contextRes, uploadVars, clientVars, nameVars, dateVars, validateVars>>

\* time passes; an armed timer fires when it is due
Elapse ==
    /\ timer # "unset"
    /\ elapsed < MaxElapsed
    /\ ~(timer = "armed" /\ elapsed >= Deadline)
    /\ elapsed' = elapsed + 1
    /\ UNCHANGED <<submissions, responses, timer, processing, contextRes, uploadVars, clientVars, nameVars,
                   dateVars, validateVars>>

\* the analysis returns and processingPromise() runs to its end: it sets context.res, and
\* when the race is still open the handler returns
ProcessingCompletes ==
    /\ processing = "running"
    /\ processing' = "done"
    /\ contextRes' = processingPromise(submissions[1], clock)
    /\ responses' = Returned(responses, contextRes')
    /\ UNCHANGED <<submissions, timer, elapsed, uploadVars, clientVars, nameVars, dateVars, validateVars>>

\* the timer rejects timeoutPromise; when the race is still open the catch block sets
\* context.res and the handler returns
TimeoutFires ==
    /\ timer = "armed"
    /\ elapsed >= Deadline
    /\ timer' = "fired"
    /\ contextRes' = IF responses = <<>> THEN ErrorResponse("Processing timeout") ELSE contextRes
    /\ responses' = Returned(responses, contextRes')
    /\ UNCHANGED <<submissions, elapsed, processing, uploadVars, clientVars, nameVars, dateVars, validateVars>>

NextRace == StartRace \/ Elapse \/ ProcessingCompletes \/ TimeoutFires

InitRace ==
    /\ clock \in ServiceClocks
    /\ InitService(RacePlans)

SpecRace == InitRace /\ [][NextRace]_vars

(***************************************************************************)
(* The chunk upload route of the Next.js application                       *)
(***************************************************************************)
\* how many chunks a file is cut into at most
MaxChunks == 2

\* how many chunk requests are followed
MaxUploads == 3

\* path.join(tempDir, `${fileId}_chunk_${chunkIndex}`), below os.tmpdir()
chunkPath(fileId, chunkIndex) == fileId \o "_chunk_" \o ToString(chunkIndex)

\* writeFile(path, buffer): the file holds the buffer, whatever it held before
writeFile(files, path, buffer) == {f \in files : f[1] # path} \cup {<<path, buffer>>}

\* readFile(path) succeeds
Readable(files, path) == \E f \in files : f[1] = path

readFile(files, path) == (CHOOSE f \in files : f[1] = path)[2]

\* unlink(path) for each chunk of the file
unlinkChunks(files, fileId, totalChunks) ==
    {f \in files : \A i \in 0..(totalChunks - 1) : f[1] # chunkPath(fileId, i)}

\* Buffer.concat(chunks), the chunks read in the order of their index
RECURSIVE concatChunks(_, _, _)
concatChunks(files, fileId, count) ==
    IF count = 0 THEN ""
    ELSE concatChunks(files, fileId, count - 1) \o readFile(files, chunkPath(fileId, count - 1))

\* the fields of the multipart form: formData.get(...) of chunk, chunkIndex, totalChunks,
\* fileName and fileId
UploadForms ==
    { [chunk |-> Str(c), chunkIndex |-> ToString(i), totalChunks |-> ToString(n),
       fileName |-> Str("a.pdf"), fileId |-> Str(f)] :
          c \in {"AB", "C"}, i \in 0..(MaxChunks - 1), n \in 1..MaxChunks, f \in {"f1", "f2"} }
    \cup { [chunk |-> Null, chunkIndex |-> "0", totalChunks |-> "1",
            fileName |-> Str("a.pdf"), fileId |-> Str("f1")],
           [chunk |-> Str("AB"), chunkIndex |-> "0", totalChunks |-> "1",
            fileName |-> Null, fileId |-> Str("f1")],
           [chunk |-> Str("AB"), chunkIndex |-> "0", totalChunks |-> "1",
            fileName |-> Str("a.pdf"), fileId |-> Null] }

\* POST of upload-chunk/route.js: the files it leaves and its answer
uploadChunk(files, form) ==
    LET Counted(written, fileId, totalChunks) ==
            LET uploadedChunks ==
                    {i \in 0..(totalChunks - 1) : Readable(written, chunkPath(fileId, i))}
            IN  IF Cardinality(uploadedChunks) = totalChunks
                THEN [files |-> unlinkChunks(written, fileId, totalChunks),
                      reply |-> [status |-> 200, complete |-> TRUE, fileId |-> fileId,
                                 fileSize |-> Len(concatChunks(written, fileId, totalChunks)),
                                 combinedBuffer |-> concatChunks(written, fileId, totalChunks)]]
                ELSE [files |-> written,
                      reply |-> [status |-> 200, complete |-> FALSE,
                                 uploadedChunks |-> Cardinality(uploadedChunks),
                                 totalChunks |-> totalChunks]]
    IN  IF Falsy(form.chunk) \/ Falsy(form.fileName) \/ Falsy(form.fileId)
        THEN [files |-> files, reply |-> [status |-> 400, error |-> "Missing required fields"]]
        ELSE Counted(writeFile(files, chunkPath(form.fileId.val, parseInt(form.chunkIndex)),
                               form.chunk.val),
                     form.fileId.val, parseInt(form.totalChunks))

\* a client posts one chunk
UploadChunk ==
    /\ Len(uploads) < MaxUploads
    /\ \E form \in UploadForms :
           /\ tempDir' = uploadChunk(tempDir, form).files
           /\ uploads' = Append(uploads, uploadChunk(tempDir, form).reply)
    /\ UNCHANGED <<submissions, responses, raceVars, clientVars, nameVars, dateVars, validateVars>>

NextUploads == UploadChunk

InitUploads ==
    /\ clock = ClockAt(1, 720)
    /\ InitService({<<>>})

SpecUploads == InitUploads /\ [][NextUploads]_vars

\* the chunk route as it runs when several requests are in flight: each await of the
\* route (writeFile, readFile, unlink) is a step of its own, and other requests run in
\* between.  The chunks 0..N-1 of one file are posted once each; pending[r] is the
\* request that carries chunk r - 1.
ChunkFileId == "f1"

\* what a chunk may hold
ChunkContents == {"AB", "C"}

\* a request that has been received: its chunk, and the locals of the route
Posted(chunk) ==
    [chunk |-> chunk, pc |-> "writeFile", i |-> 0, uploadedChunks |-> 0, chunks |-> <<>>]

\* Buffer.concat(chunks)
RECURSIVE concat(_)
concat(chunks) == IF chunks = <<>> THEN "" ELSE Head(chunks) \o concat(Tail(chunks))

\* await writeFile(chunkPath, buffer) (lines 20-25)
AwaitWriteFile ==
    /\ \E r \in 1..Len(pending) :
           /\ pending[r].pc = "writeFile"
           /\ tempDir' = writeFile(tempDir, chunkPath(ChunkFileId, r - 1), pending[r].chunk)
           /\ pending' = [pending EXCEPT ![r].pc = "count"]
    /\ UNCHANGED <<uploads, ui, fetches, submissions, responses, raceVars, nameVars, dateVars,
                   validateVars>>

\* one round of the loop that counts the chunks (lines 28-37); after the last round the
\* route answers at once when a chunk is missing (lines 39, 69-73)
AwaitReadFileToCount ==
    /\ \E r \in 1..Len(pending) :
           LET totalChunks == Len(pending)
               uploadedChunks ==
                   pending[r].uploadedChunks
                       + (IF Readable(tempDir, chunkPath(ChunkFileId, pending[r].i)) THEN 1 ELSE 0)
           IN  /\ pending[r].pc = "count"
               /\ IF pending[r].i + 1 < totalChunks
                  THEN /\ pending' = [pending EXCEPT ![r].i = pending[r].i + 1,
                                                     ![r].uploadedChunks = uploadedChunks]
                       /\ UNCHANGED uploads
                  ELSE IF uploadedChunks = totalChunks
                  THEN /\ pending' = [pending EXCEPT ![r].pc = "combine", ![r].i = 0,
                                                     ![r].uploadedChunks = uploadedChunks]
                       /\ UNCHANGED uploads
                  ELSE /\ pending' = [pending EXCEPT ![r].pc = "answered"]
                       /\ uploads' = Append(uploads,
                                            [status |-> 200, complete |-> FALSE,
                                             uploadedChunks |-> uploadedChunks,
                                             totalChunks |-> totalChunks])
    /\ UNCHANGED <<tempDir, ui, fetches, submissions, responses, raceVars, nameVars, dateVars,
                   validateVars>>

\* one round of the loop that reads the chunks to combine them (lines 43-47); a chunk
\* that is gone makes readFile throw, and the catch block answers 500 (lines 75-78)
AwaitReadFileToCombine ==
    /\ \E r \in 1..Len(pending) :
           /\ pending[r].pc = "combine"
           /\ IF ~Readable(tempDir, chunkPath(ChunkFileId, pending[r].i))
              THEN /\ pending' = [pending EXCEPT ![r].pc = "answered"]
                   /\ uploads' = Append(uploads,
                                        [status |-> 500, error |-> "Failed to process chunk"])
              ELSE /\ pending' =
                          [pending EXCEPT
                               ![r].chunks =
                                   Append(pending[r].chunks,
                                          readFile(tempDir, chunkPath(ChunkFileId, pending[r].i))),
                               ![r].i = IF pending[r].i + 1 < Len(pending) THEN pending[r].i + 1
                                        ELSE 0,
                               ![r].pc = IF pending[r].i + 1 < Len(pending) THEN "combine"
                                         ELSE "unlink"]
                   /\ UNCHANGED uploads
    /\ UNCHANGED <<tempDir, ui, fetches, submissions, responses, raceVars, nameVars, dateVars,
                   validateVars>>

\* one round of the loop that removes the chunks (lines 52-59), errors ignored; after
\* the last round the route answers complete (lines 61-66)
AwaitUnlink ==
    /\ \E r \in 1..Len(pending) :
           /\ pending[r].pc = "unlink"
           /\ tempDir' = {f \in tempDir : f[1] # chunkPath(ChunkFileId, pending[r].i)}
           /\ IF pending[r].i + 1 < Len(pending)
              THEN /\ pending' = [pending EXCEPT ![r].i = pending[r].i + 1]
                   /\ UNCHANGED uploads
              ELSE /\ pending' = [pending EXCEPT ![r].pc = "answered"]
                   /\ uploads' = Append(uploads,
                                        [status |-> 200, complete |-> TRUE, fileId |-> ChunkFileId,
                                         fileSize |-> Len(concat(pending[r].chunks)),
                                         combinedBuffer |-> concat(pending[r].chunks)])
    /\ UNCHANGED <<ui, fetches, submissions, responses, raceVars, nameVars, dateVars,
                   validateVars>>

NextChunks == AwaitWriteFile \/ AwaitReadFileToCount \/ AwaitReadFileToCombine \/ AwaitUnlink

InitChunks ==
    /\ clock = ClockAt(1, 720)
    /\ submissions = <<>>
    /\ responses = <<>>
    /\ IdleRace
    /\ IdleUpload
    /\ ui = MountedUi
    /\ fetches = {}
    /\ \E totalChunks \in 1..MaxChunks :
           \E file \in [1..totalChunks -> ChunkContents] :
               pending = [r \in 1..totalChunks |-> Posted(file[r])]
    /\ IdleDates
    /\ IdleNames
    /\ IdleValidate

SpecChunks == InitChunks /\ [][NextChunks]_vars

(***************************************************************************)
(* The DocumentValidator component (src/unnamed/part_008 lines 494-847)    *)
(***************************************************************************)
\* the types the user picks from: both fields required, the name required, none required
UiTypes == {"tax-clearance-online", "cert-formation", "bylaws"}

\* the files the user selects or drops: two documents, a program and a file over the
\* size limit
UiFiles ==
    { [type |-> "object", name |-> "a.pdf", mime |-> "application/pdf", size |-> 1024],
      [type |-> "object", name |-> "b.PNG", mime |-> "", size |-> 2048],
      [type |-> "object", name |-> "c.exe", mime |-> "application/x-msdownload", size |-> 1024],
      [type |-> "object", name |-> "d.pdf", mime |-> "application/pdf",
       size |-> 23 * 1024 * 1024 + 1] }

UiInputs == {<<"organizationName", "">>, <<"organizationName", "Acme LLC">>,
             <<"fein", " ">>, <<"fein", "123456789">>}

\* name.split('.').pop()
RECURSIVE lastSegment(_)
lastSegment(name) ==
    IF indexOf(name, ".") = 0 THEN name ELSE lastSegment(substring(name, indexOf(name, ".")))

\* the switch of the effect on documentType (lines 572-596)
requiredFieldsOf(selected) ==
    [organizationName |->
         selected \in {"tax-clearance-online", "tax-clearance-manual", "operating-agreement",
                       "cert-formation", "cert-formation-independent", "cert-incorporation",
                       "cert-authority", "cert-alternative-name"},
     fein |-> selected \in {"tax-clearance-online", "tax-clearance-manual"}]

\* validateRequiredFields() (lines 695-710)
validateRequiredFields(state) ==
    /\ ~(state.requiredFields.organizationName /\ trim(state.formFields.organizationName) = "")
    /\ ~(state.requiredFields.fein /\ trim(state.formFields.fein) = "")

\* the payload of validateDocument (lines 745-751)
Payload(state) ==
    [fileName |-> state.file.name, documentType |-> state.documentType,
     organizationName |-> state.formFields.organizationName, fein |-> state.formFields.fein]

\* the user picks another type: setDocumentType, then the effect on documentType
\* (lines 572-601)
setDocumentType ==
    /\ \E selected \in UiTypes \ {ui.documentType} :
           ui' = [ui EXCEPT !.documentType = selected,
                            !.requiredFields = requiredFieldsOf(selected),
                            !.validationResult = NoResult,
                            !.error = Null]
    /\ UNCHANGED <<fetches, pending, submissions, responses, raceVars, uploadVars, nameVars,
                   dateVars, validateVars>>

\* handleFile(selectedFile) (lines 604-629)
handleFile ==
    /\ \E selectedFile \in UiFiles :
           LET fileExtension == "." \o toLowerCase(lastSegment(selectedFile.name))
               isValidType ==
                   \/ selectedFile.mime \in
                          {"application/pdf",
                           "application/vnd.openxmlformats-officedocument.wordprocessingml.document",
                           "application/msword", "text/plain", "image/png", "image/jpeg",
                           "image/jpg"}
                   \/ fileExtension \in {".pdf", ".docx", ".doc", ".txt", ".png", ".jpg", ".jpeg"}
           IN  ui' = IF ~isValidType
                     THEN [ui EXCEPT !.error =
                               Str("Please select a valid file type: PDF, DOCX, DOC, TXT, PNG, JPG, or JPEG")]
                     ELSE IF selectedFile.size > 23 * 1024 * 1024
                     THEN [ui EXCEPT !.error = Str("File size must be less than 23 MB")]
                     ELSE [ui EXCEPT !.file = selectedFile, !.validationResult = NoResult,
                                     !.error = Null]
    /\ UNCHANGED <<fetches, pending, submissions, responses, raceVars, uploadVars, nameVars,
                   dateVars, validateVars>>

\* handleInputChange(e) (lines 676-690)
handleInputChange ==
    /\ \E input \in UiInputs :
           ui' = [ui EXCEPT !.formFields =
                      IF input[1] = "organizationName"
                      THEN [organizationName |-> input[2], fein |-> ui.formFields.fein]
                      ELSE [organizationName |-> ui.formFields.organizationName, fein |-> input[2]]]
    /\ UNCHANGED <<fetches, pending, submissions, responses, raceVars, uploadVars, nameVars,
                   dateVars, validateVars>>

\* validateDocument() up to the fetch (lines 725-762); the button is disabled while
\* isUploading (part_007 line 39)
validateDocument ==
    /\ ~ui.isUploading
    /\ IF ui.file.type = "null"
       THEN /\ ui' = [ui EXCEPT !.error = Str("Please upload a document first")]
            /\ UNCHANGED fetches
       ELSE IF ~validateRequiredFields(ui)
       THEN /\ ui' = [ui EXCEPT !.error = Str("Please fill in all required fields")]
            /\ UNCHANGED fetches
       ELSE /\ ui' = [ui EXCEPT !.isUploading = TRUE, !.error = Null]
            /\ fetches' = fetches \cup {Payload(ui)}
    /\ UNCHANGED <<pending, submissions, responses, raceVars, uploadVars, nameVars, dateVars,
                   validateVars>>

\* the result of a response that is ok (line 768): the report on the document of the
\* payload, validated as the type of the payload
Displayed(payload) ==
    [type |-> "object", documentType |-> payload.documentType, fileName |-> payload.fileName]

\* the response of a request arrives: validateDocument from the fetch on (lines
\* 762-776)
FetchReturns ==
    /\ \E payload \in fetches :
           /\ fetches' = fetches \ {payload}
           /\ \E ok \in BOOLEAN :
                  ui' = IF ok
                        THEN [ui EXCEPT !.validationResult = Displayed(payload),
                                        !.isUploading = FALSE]
                        ELSE [ui EXCEPT !.error = Str("Failed to validate document"),
                                        !.isUploading = FALSE]
    /\ UNCHANGED <<pending, submissions, responses, raceVars, uploadVars, nameVars, dateVars,
                   validateVars>>

NextUi == setDocumentType \/ handleFile \/ handleInputChange \/ validateDocument \/ FetchReturns

InitUi ==
    /\ clock = ClockAt(1, 720)
    /\ InitService({<<>>})

SpecUi == InitUi /\ [][NextUi]_vars

(***************************************************************************)
(* Claims about the validation report                                      *)
(***************************************************************************)
EndsWith(s, t) == Len(s) >= Len(t) /\ SubSeq(s, Len(s) - Len(t) + 1, Len(s)) = t

\* some date of the text, in one of the three notations, lies in the window of
\* six calendar months that ends today
ContainsDateInWindow(content, c) ==
    \/ \E k \in 1..Len(NumericMatches(content)) :
           LET m == NumericMatches(content)[k]
           IN  InCalendarWindow(m.p3, m.p1, m.p2, c) \/ InCalendarWindow(m.p3, m.p2, m.p1, c)
    \/ \E k \in 1..Len(WrittenMatches(content)) :
           LET m == WrittenMatches(content)[k]
           IN  m.p1 # -1 /\ InCalendarWindow(m.p3, m.p1 + 1, m.p2, c)
    \/ \E k \in 1..Len(OrdinalMatches(content)) :
           LET m == OrdinalMatches(content)[k]
           IN  m.p1 # -1 /\ InCalendarWindow(m.p3, m.p1 + 1, m.p2, c)

\* the request of the scenario: every phrase, a date in the window, the
\* signature, the two fields and a detected applicant ID that ends in 789
CompliantOnlineRequest(submission, c) ==
    /\ submission.body.file
    /\ submission.body.documentType = Str("tax-clearance-online")
    /\ submission.body.organizationName = Str("Acme LLC")
    /\ submission.body.fein = Str("123456789")
    /\ \A phrase \in {"state of new jersey", "department of the treasury",
                      "division of taxation", "clearance certificate"} :
           includes(toLowerCase(submission.result.content), phrase)
    /\ includes(submission.result.content, "Serial# 12345")
    /\ includes(submission.result.content, "Acting Director")
    /\ ContainsDateInWindow(submission.result.content, c)
    /\ LET detectedId == TaxClearanceId(submission.result.content, submission.result.keyValuePairs)
       IN  ~Falsy(detectedId) /\ EndsWith(detectedId.val, "789")

\* C11: a tax-clearance-online request whose text has every required phrase,
\* "Serial# 12345", a date within six months and "Acting Director", with
\* organizationName "Acme LLC", fein "123456789" and a detected applicant ID
\* that ends in 789, is answered with no missing element and success true.
CompliantOnlineCertificateSucceeds ==
    \A k \in 1..Len(responses) :
        CompliantOnlineRequest(submissions[k], clock)
            => /\ responses[k].status = 200
               /\ responses[k].missingElements = <<>>
               /\ responses[k].success = TRUE

\* the entries a rule set appends whatever the fields are when the text has
\* none of what it looks for, in the order of its checks; for the three tags
\* that only the Next.js route dispatches, the entries of its rule sets
MandatoryChecks ==
    [t \in RecognizedTags |->
        CASE t = "tax-clearance-online" ->
                 << "Required keyword: 'Clearance Certificate'", "Serial Number is missing",
                    "Required keyword: 'State of New Jersey'",
                    "Required keyword: Department of the Treasury",
                    "Required keyword: Division of Taxation",
                    "Certificate must be dated within the past six months",
                    "Signature is missing" >>
          [] t = "tax-clearance-manual" ->
                 << "Required keyword: 'Clearance Certificate'",
                    "Required keyword: 'State of New Jersey'",
                    "Required keyword: 'BATC - Manual'",
                    "Required keyword: Department of the Treasury",
                    "Required keyword: Division of Taxation",
                    "Certificate must be dated within the past six months",
                    "Signature is missing" >>
          [] t = "cert-alternative-name" ->
                 << "Required keyword: 'Certificate of Alternate Name'",
                    "Required keyword: 'Division of Revenue'",
                    "Date stamp by Department of Treasury is missing" >>
          [] t = "cert-trade-name" -> << "Required keyword: 'Certificate of Trade Name'" >>
          [] t = "cert-formation" ->
                 << "Required keyword: 'Certificate of Formation'",
                    "Certificate is not issued by the NJ Department of the Treasury",
                    "Signature of authorized state official is missing",
                    "Document must contain a date",
                    "Certificate verification information is missing" >>
          [] t = "cert-formation-independent" ->
                 << "Required keyword: 'Certificate of Formation'", "Required keyword: 'Filed'",
                    "Signature of authorized state official is missing" >>
          [] t = "operating-agreement" ->
                 << "Required keyword: 'Operating Agreement'", "Member signatures are missing",
                    "Date is missing", "New Jersey state reference is missing" >>
          [] t = "cert-incorporation" ->
                 << "Required text: 'Certificate of Incorporation'",
                    "Board of Directors section is missing" >>
          [] t = "irs-determination" -> << "IRS letterhead is missing", "Signature is missing" >>
          [] t = "bylaws" -> << "Required keyword: 'Bylaws'", "Document must contain a date" >>
          [] t = "cert-authority" ->
                 << "Required keyword: 'Certificate of Authority'",
                    "Required keyword: 'State of New Jersey'",
                    "Required keyword: 'Division of Taxation' or 'Department of the Treasury'" >>
          [] t = "cert-good-standing-long" ->
                 << "Required keyword: 'Long Form Standing declaration'",
                    "Active and good standing status is missing",
                    "Required keyword: 'Department of the Treasury'",
                    "Required keyword: 'Division of Revenue & Enterprise Services'",
                    "Officers/Directors information is missing",
                    "Registered agent/office information is missing", "State seal is missing",
                    "State Treasurer signature is missing", "Certificate number is missing",
                    "Certificate verification information is missing" >>
          [] t = "cert-good-standing-short" ->
                 << "Active and good standing status is missing",
                    "Required keyword: 'Department of the Treasury'",
                    "Required keyword: 'Division of Revenue & Enterprise Services'",
                    "State seal is missing", "State Treasurer signature is missing" >>
          [] OTHER -> << "Required keyword: 'Certificate of Authority'", "State seal is missing" >>]

\* the request carries a file without text and without key-value pairs
EmptyTextRequest(submission) ==
    /\ submission.body.file
    /\ submission.result.content = ""
    /\ submission.result.keyValuePairs = <<>>

\* the response is a report with exactly the entries of the type's mandatory checks
ReportsEveryCheck(submission, response) ==
    /\ response.status = 200
    /\ response.missingElements = MandatoryChecks[submission.body.documentType.val]
    /\ Len(response.missingElements) = Len(MandatoryChecks[submission.body.documentType.val])

\* C12 as the specification states it: for each of the 14 recognized document
\* types, an empty text without key-value pairs is validated without an
\* exception and every mandatory check of the type reports its missing element.
EmptyTextFailsEveryCheckOfFourteen ==
    \A k \in 1..Len(responses) :
        (/\ EmptyTextRequest(submissions[k])
         /\ submissions[k].body.documentType \in {Str(t) : t \in RecognizedTags})
            => ReportsEveryCheck(submissions[k], responses[k])

\* C12: for each document type the switch of the function has a case for, an
\* empty text without key-value pairs is validated without an exception, every
\* mandatory check of the type reports its missing element and nothing else is
\* reported, whatever the fields of the form are.
EmptyTextFailsEveryCheck ==
    \A k \in 1..Len(responses) :
        (/\ EmptyTextRequest(submissions[k])
         /\ submissions[k].body.documentType \in {Str(t) : t \in RecognizedTags \ NextJsOnlyTags})
            => ReportsEveryCheck(submissions[k], responses[k])

\* an empty certificate of formation submitted with both fields filled in
EmptyTextFailsEveryCheckWitness ==
    /\ Len(responses) = 1
    /\ submissions[1].result.content = ""
    /\ submissions[1].body.documentType = Str("cert-formation")
    /\ submissions[1].body.organizationName = Str("Acme LLC")
    /\ submissions[1].body.fein = Str("123456789")
    /\ Len(responses[1].missingElements) = 5
    /\ responses[1].success = FALSE
    /\ responses[1].detectedOrganizationName = Null


\* the report lists the entry of a name mismatch
HasNameMismatch(response) ==
    \E k \in 1..Len(response.missingElements) : response.missingElements[k] = NameMismatch.missing

\* the form sent a name, the document showed one, and the matcher rejects the pair
NamesRejected(submission, response) ==
    /\ ~Falsy(submission.body.organizationName)
    /\ ~Falsy(response.detectedOrganizationName)
    /\ ~organizationNamesMatch(submission.body.organizationName, response.detectedOrganizationName)

\* C13: organizationNameMatches is false exactly when missingElements holds the entry of the
\* name mismatch, and a rule set appends that entry exactly when the name of the form and the
\* detected name are both present and the matcher rejects the pair.
NameMismatchExactlyWhenRejected ==
    \A k \in 1..Len(responses) :
        responses[k].status = 200 =>
            /\ responses[k].organizationNameMatches = ~HasNameMismatch(responses[k])
            /\ HasNameMismatch(responses[k]) <=> NamesRejected(submissions[k], responses[k])

\* the certificate of "Beta Corporation" submitted for "Beta LLC"
NameMismatchExactlyWhenRejectedWitness ==
    /\ Len(responses) = 1
    /\ submissions[1].body.documentType = Str("tax-clearance-online")
    /\ submissions[1].body.organizationName = Str("Beta LLC")
    /\ responses[1].status = 200
    /\ responses[1].detectedOrganizationName = Str("Beta Corporation")
    /\ HasNameMismatch(responses[1])
    /\ responses[1].organizationNameMatches = FALSE
    /\ responses[1].success = FALSE


\* the entries of missingElements that report a date, not a keyword or phrase
DateEntries ==
    {"Certificate must be dated within the past six months",
     "Date stamp by Department of Treasury is missing", "Document must contain a date",
     "Date is missing"}

\* the entries of a type that report a missing keyword, phrase, title or signature
PhraseEntries(documentType) ==
    {MandatoryChecks[documentType][k] : k \in 1..Len(MandatoryChecks[documentType])} \ DateEntries

Reported(response) == {response.missingElements[k] : k \in 1..Len(response.missingElements)}

\* two requests that differ in the letter case of the text only
SameButCase(s1, s2) ==
    /\ s1.body = s2.body
    /\ s1.result.keyValuePairs = s2.result.keyValuePairs
    /\ toLowerCase(s1.result.content) = toLowerCase(s2.result.content)

\* C14: changing only the letter case of the text never changes which keyword or phrase
\* entries appear in missingElements.
LetterCaseNeverChangesPhraseEntries ==
    \A j, k \in 1..Len(responses) :
        SameButCase(submissions[j], submissions[k]) =>
            Reported(responses[j]) \cap PhraseEntries(submissions[j].body.documentType.val)
                = Reported(responses[k]) \cap PhraseEntries(submissions[k].body.documentType.val)


\* a key-value pair whose key labels a name and whose value is the given text
NameLabelled(pair, text) ==
    /\ ~Falsy(pair.key)
    /\ includes(toLowerCase(pair.key.val), "name")
    /\ pair.value.present
    /\ pair.value.content = text

\* the text is printed in the document, or is the value of a pair whose key is a name label
TakenFromDocument(text, result) ==
    \/ includes(result.content, text.val)
    \/ \E k \in 1..Len(result.keyValuePairs) : NameLabelled(result.keyValuePairs[k], text)

FeinEntries ==
    {"FEIN last three digits don't match the Applicant ID on the certificate",
     "FEIN (Federal Employer Identification Number) doesn't match the one on the certificate"}

\* two requests that differ in the FEIN only, with FEINs of 3 characters or more that end alike
SameButFeinHead(s1, s2) ==
    /\ s1.result = s2.result
    /\ s1.body.documentType = s2.body.documentType
    /\ s1.body.organizationName = s2.body.organizationName
    /\ ~Falsy(s1.body.fein) /\ Len(s1.body.fein.val) >= 3
    /\ ~Falsy(s2.body.fein) /\ Len(s2.body.fein.val) >= 3
    /\ lastThree(s1.body.fein.val) = lastThree(s2.body.fein.val)

\* the document shows an applicant ID that does not contain the last 3 characters of the FEIN
LastThreeMissFromId(submission) ==
    LET Miss(detectedId) ==
            ~Falsy(detectedId) /\ ~includes(detectedId.val, lastThree(submission.body.fein.val))
    IN  Miss(TaxClearanceId(submission.result.content, submission.result.keyValuePairs))

\* C16: the FEIN acts on the outcome only through its last 3 characters: FEINs that end alike
\* get the same report, and an entry about the FEIN is listed only when these 3 characters do
\* not match the applicant ID of the document.
FeinActsThroughLastThreeOnly ==
    /\ \A j, k \in 1..Len(responses) :
           SameButFeinHead(submissions[j], submissions[k]) => responses[j] = responses[k]
    /\ \A k \in 1..Len(responses) :
           Reported(responses[k]) \cap FeinEntries # {} => LastThreeMissFromId(submissions[k])


\* C17: when the form sends no name, or an empty one, no name mismatch is listed; when it
\* sends no FEIN, or an empty one, no entry about the FEIN is listed; and a request with
\* a file is answered with a report, not with an error, whatever else is absent.
AbsentFieldsSkipTheirChecks ==
    \A k \in 1..Len(responses) :
        /\ responses[k].status = 200
        /\ Falsy(submissions[k].body.organizationName) => ~HasNameMismatch(responses[k])
        /\ Falsy(submissions[k].body.fein) => Reported(responses[k]) \cap FeinEntries = {}

\* a compliant online certificate of "ACME LLC" with an applicant ID, submitted without
\* name and FEIN
AbsentFieldsSkipTheirChecksWitness ==
    /\ Len(responses) = 1
    /\ submissions[1].body.documentType = Str("tax-clearance-online")
    /\ submissions[1].body.organizationName = Undefined
    /\ submissions[1].body.fein = Undefined
    /\ submissions[1].result.keyValuePairs = <<>>
    /\ responses[1].detectedOrganizationName = Str("ACME LLC")
    /\ ~Falsy(TaxClearanceId(submissions[1].result.content, submissions[1].result.keyValuePairs))
    /\ responses[1].missingElements = <<>>
    /\ responses[1].success = TRUE

(***************************************************************************)
(* Claims about the timeout of the handler                                 *)
(***************************************************************************)
\* the timer fires while the processing is still running
TimesOut == timer = "armed" /\ timer' = "fired" /\ processing = "running"

\* the processing completes while the timer has not fired
CompletesFirst == processing = "running" /\ processing' = "done" /\ timer = "armed"

TimeoutRaceStep ==
    /\ TimesOut => responses' = <<ErrorResponse("Processing timeout")>>
    /\ CompletesFirst => responses' = <<processingPromise(submissions[1], clock)>>
    /\ responses # <<>> => responses' = responses
    /\ (processing' = "running" /\ timer' = "armed") => (responses' = <<>> /\ elapsed' <= Deadline)

\* C18: when the processing has not completed within 50 seconds of the start of the race
\* the request is answered with status 504 and the timeout error; when it completes first
\* the answer is the validation report; and an answer, once given, is never replaced.
TimeoutRaceAnswersOnce == [][TimeoutRaceStep]_vars

\* the request was answered with 504, and the processing completed afterwards and set
\* context.res to its report
TimeoutRaceAnswersOnceWitness ==
    /\ timer = "fired"
    /\ processing = "done"
    /\ Len(responses) = 1
    /\ responses[1].status = 504
    /\ responses[1].error = "Request timed out. Document processing took too long."
    /\ contextRes.status = 200
    /\ elapsed > Deadline

(***************************************************************************)
(* Claims about what a request leaves behind                               *)
(***************************************************************************)
\* C19: documents are processed in memory only: no document data is on disk, nor stored
\* anywhere else, once the request that carried it has been answered, a chunk upload that
\* does not complete its file included.
NothingStoredAfterRequest == tempDir = {}

(***************************************************************************)
(* Claims about the cap on the date matches                                *)
(***************************************************************************)
\* a date of the text, wherever it stands, in one of the three notations, lies in the window
AnyCandidateInWindow(content, c) ==
    LET AnyNumeric(found) == \E k \in 1..Len(found) : NumericAccepted(NumericParts(found[k]), c)
        AnyWritten(found) == \E k \in 1..Len(found) : NamedMonthAccepted(WrittenParts(found[k]), c)
        AnyOrdinal(found) == \E k \in 1..Len(found) : NamedMonthAccepted(OrdinalParts(found[k]), c)
    IN  \/ AnyNumeric(matchAllFrom(numericDateRegex, content, 1, 3, FALSE))
        \/ AnyWritten(matchAllFrom(writtenDateRegex, content, 1, 6, TRUE))
        \/ AnyOrdinal(matchAllFrom(ordinalDateRegex, content, 1, 4, TRUE))

\* C20: looking at the first 10 numeric, 10 written and 5 ordinal matches only does not
\* change the result: the check answers false only if no date of the text, in any of the
\* three notations, lies in the window.
CappingDoesNotAffectResult ==
    (datePhase = "checked" /\ Len(dateText) >= MinContentLength /\ dateResult = FALSE)
        => ~AnyCandidateInWindow(dateText, clock)

(***************************************************************************)
(* Claims about the core names of the matcher                              *)
(***************************************************************************)
\* a normalized name without the entity form that ends it
StripEndingEntity(n) ==
    LET Without(form) == IF form = NoEntity THEN n ELSE trim(SubSeq(n, 1, Len(n) - Len(form)))
    IN  Without(SuffixEntityType(n))

\* the pair reaches the comparison of the core names: the normalized names differ and
\* neither contains the other
ReachesCoreComparison(n1, n2) ==
    LET Apart(normalized1, normalized2) ==
            /\ normalized1 # normalized2
            /\ ~includes(normalized1, normalized2)
            /\ ~includes(normalized2, normalized1)
    IN  ~Falsy(n1) /\ ~Falsy(n2)
        /\ Apart(normalizeOrganizationName(n1), normalizeOrganizationName(n2))

\* C21: in the comparison of the core names only an entity form at the end of a normalized
\* name is stripped: two names are matched by their cores only if they are equal after
\* removing the entity form that ends each of them; an entity word elsewhere stays in the core.
CoreMatchStripsEndingEntityOnly ==
    (namePhase = "matched" /\ ReachesCoreComparison(name1, name2) /\ matchResult = TRUE)
        => StripEndingEntity(normalizeOrganizationName(name1))
               = StripEndingEntity(normalizeOrganizationName(name2))

(***************************************************************************)
(* Claims about the presence of a date                                     *)
(***************************************************************************)
\* C22: the date-presence check is looser than the window check: a text for which
\* checkDateWithinSixMonths returns true, whatever the clock, makes checkForDatePresence
\* return true.
WindowImpliesPresence ==
    (datePhase = "checked" /\ dateResult = TRUE) => checkForDatePresence(dateText)

(***************************************************************************)
(* Claims about the two tax clearance rule sets                            *)
(***************************************************************************)
BatcMarkerEntry == "Required keyword: 'BATC - Manual'"

\* the same input submitted as tax-clearance-online (first) and tax-clearance-manual (second)
OnlineThenManual ==
    /\ Len(responses) = 2
    /\ submissions[1].body.documentType = Str("tax-clearance-online")
    /\ submissions[2].body.documentType = Str("tax-clearance-manual")
    /\ submissions[1].result = submissions[2].result
    /\ submissions[1].body.organizationName = submissions[2].body.organizationName
    /\ submissions[1].body.fein = submissions[2].body.fein

\* the marker entry, when the text contains neither "batc" nor "manual"
MarkerIfMissing(contentLower) ==
    IF ~includes(contentLower, "batc") /\ ~includes(contentLower, "manual")
    THEN {BatcMarkerEntry} ELSE {}

\* C23 as stated: the missingElements of tax-clearance-manual are those of
\* tax-clearance-online for the same input plus, exactly when the text contains neither
\* "BATC" nor "manual", the marker entry.
ManualIsOnlinePlusMarker ==
    OnlineThenManual =>
        Reported(responses[2])
            = Reported(responses[1]) \cup MarkerIfMissing(toLowerCase(submissions[1].result.content))

\* the entries on which the two rule sets differ besides the marker
ManualOwnEntries(content, contentLower, online) ==
    (IF ~includes(contentLower, "state of new jersey")
     THEN {"Required keyword: 'State of New Jersey'"} ELSE {})
    \cup (IF "Signature is missing" \in online /\ ~includes(content, "Director of Taxation")
          THEN {"Signature is missing"} ELSE {})

\* what the code does instead: the manual rule set has no serial-number check, asks for
\* "state of new jersey" in full and accepts "Director of Taxation" as a signature; apart
\* from that its missingElements are those of the online rule set plus the marker entry.
ManualIsOnlineButSerialStateSignature ==
    OnlineThenManual =>
        Reported(responses[2])
            = (Reported(responses[1])
                   \ {"Serial Number is missing", "Required keyword: 'State of New Jersey'",
                      "Signature is missing"})
              \cup MarkerIfMissing(toLowerCase(submissions[1].result.content))
              \cup ManualOwnEntries(submissions[1].result.content,
                                    toLowerCase(submissions[1].result.content),
                                    Reported(responses[1]))

\* a certificate without serial number and marker: the online rule set lists the serial
\* number, the manual one the marker
ManualIsOnlineButSerialStateSignatureWitness ==
    /\ OnlineThenManual
    /\ "Serial Number is missing" \in Reported(responses[1])
    /\ "Serial Number is missing" \notin Reported(responses[2])
    /\ BatcMarkerEntry \in Reported(responses[2])
    /\ BatcMarkerEntry \notin Reported(responses[1])
    /\ responses[1].detectedOrganizationName = responses[2].detectedOrganizationName

(***************************************************************************)
(* Claims about the line scan around an anchor phrase                      *)
(***************************************************************************)
\* a line the scan does not skip
SurvivesScan(line, rule) ==
    /\ line # ""
    /\ Len(line) > 3
    /\ ~test(rule.dateLine, line, FALSE)
    /\ ~includesAny(toLowerCase(line), rule.skip)
    /\ ~(rule.attn /\ test(AttnLine, line, TRUE))

\* all-uppercase and longer than 5 characters, or with an entity word
HighConfidence(line) ==
    \/ line = toUpperCase(line) /\ Len(line) > 5
    \/ test(EntityWord, line, TRUE)

\* the first high-confidence surviving line of lines i..last, or else the first surviving
\* one, or else null
FirstCandidate(lines, i, last, rule) ==
    LET surviving == {k \in i..last : SurvivesScan(trim(lines[k]), rule)}
        confident == {k \in surviving : HighConfidence(trim(lines[k]))}
        First(S) == CHOOSE k \in S : \A j \in S : k <= j
    IN  IF confident # {} THEN Str(trim(lines[First(confident)]))
        ELSE IF surviving # {} THEN Str(trim(lines[First(surviving)]))
        ELSE Null

\* the lines a rule set scans in a content, as [lines, from, to, rule]
ScannedWindow(documentType, content) ==
    LET Above(lines, anchor) ==
            [lines |-> lines, from |-> Max(1, anchor - 5), to |-> anchor - 1,
             rule |-> TaxClearanceScan]
        After(lines) ==
            [lines |-> lines, from |-> 1, to |-> Min(5, Len(lines)), rule |-> FormationScan]
        Behind(found) == After(splitLines(substring(content, found.index - 1 + found.length)))
    IN  IF documentType = Str("tax-clearance-online")
        THEN Above(splitLines(content),
                   findLineIndex(splitLines(content),
                                 {"BUSINESS ASSISTANCE OR INCENTIVE", "CLEARANCE CERTIFICATE"}))
        ELSE Behind(firstPhrase(toLowerCase(content), <<"certificate of formation">>, 1))

ScanCandidate(w) == FirstCandidate(w.lines, w.from, w.to, w.rule)

\* C24: the name a line scan detects is the first surviving line that is high-confidence
\* (all-uppercase and longer than 5 characters, or with an entity word), and without such
\* a line the first surviving line of the scan.
ScanDetectsFirstCandidate ==
    \A k \in 1..Len(responses) :
        (/\ submissions[k].body.documentType \in {Str("tax-clearance-online"), Str("cert-formation")}
         /\ ScanCandidate(ScannedWindow(submissions[k].body.documentType,
                                        submissions[k].result.content)) # Null)
        => responses[k].detectedOrganizationName
               = ScanCandidate(ScannedWindow(submissions[k].body.documentType,
                                             submissions[k].result.content))

(***************************************************************************)
(* Claims about the rule sets that read no form field                      *)
(***************************************************************************)
\* C25: for operating-agreement, cert-incorporation, irs-determination, bylaws and
\* cert-trade-name the response does not depend on the form fields, reports no detected
\* name and reports the names as matching.
FieldlessTypesIgnoreFields ==
    (/\ Len(responses) = 2
     /\ submissions[2].body.documentType \in {Str(t) : t \in FieldlessTypes})
    => /\ responses[2] = responses[1]
       /\ responses[2].status = 200
       /\ responses[2].detectedOrganizationName = Null
       /\ responses[2].organizationNameMatches

\* an operating agreement of "Acme LLC" submitted for "Beta LLC": the names are reported
\* as matching
FieldlessTypesIgnoreFieldsWitness ==
    /\ Len(responses) = 2
    /\ submissions[2].body.documentType = Str("operating-agreement")
    /\ submissions[2].body.organizationName = Str("Beta LLC")
    /\ submissions[1].body.organizationName = Undefined
    /\ includes(submissions[2].result.content, "Acme LLC")
    /\ responses[2].organizationNameMatches
    /\ responses[2].detectedOrganizationName = Null

(***************************************************************************)
(* Claims about names that normalize to nothing                            *)
(***************************************************************************)
\* null, undefined, empty, or only white space, commas and periods
NormalizesToNothing(name) == Falsy(name) \/ normalizeOrganizationName(name) = ""

\* C26: organizationNamesMatch returns false whenever either argument is null, undefined,
\* empty, or normalizes to the empty string.
NothingMatchesNoName ==
    (namePhase = "matched" /\ (NormalizesToNothing(name1) \/ NormalizesToNothing(name2)))
    => ~matchResult

(***************************************************************************)
(* Claims about suggestedActions                                           *)
(***************************************************************************)
\* C27: a report never has more suggestedActions than missingElements, and a report
\* with success true has no suggestedActions.
ActionsNeverOutnumberElements ==
    \A k \in 1..Len(responses) :
        responses[k].status = 200
        => /\ Len(responses[k].suggestedActions) <= Len(responses[k].missingElements)
           /\ responses[k].success => responses[k].suggestedActions = <<>>

\* a successful report, and a failed one with fewer actions than elements
ActionsNeverOutnumberElementsWitness ==
    /\ Len(responses) = 2
    /\ responses[1].status = 200
    /\ responses[1].success
    /\ responses[1].suggestedActions = <<>>
    /\ responses[2].status = 200
    /\ Len(responses[2].suggestedActions) >= 1
    /\ Len(responses[2].suggestedActions) < Len(responses[2].missingElements)

(***************************************************************************)
(* Claims about requests without a file                                    *)
(***************************************************************************)
\* C28: a validation request that carries no file is answered with status 400 and the
\* error "No file provided".
NoFileAnsweredWith400 ==
    \A k \in 1..Len(responses) :
        ~submissions[k].body.file
        => responses[k] = [status |-> 400, error |-> "No file provided"]

(***************************************************************************)
(* Claims about the DocumentValidator component                            *)
(***************************************************************************)
\* C29: a validationResult that is displayed was produced for the documentType and the
\* file that are selected now.
DisplayedResultIsForSelection ==
    ui.validationResult.type # "null"
    => /\ ui.validationResult.documentType = ui.documentType
       /\ ui.validationResult.fileName = ui.file.name

(***************************************************************************)
(* Claims about concurrent chunk uploads                                   *)
(***************************************************************************)
\* the chunks 0..count-1 in the order of their index
RECURSIVE WholeFile(_)
WholeFile(count) == IF count = 0 THEN "" ELSE WholeFile(count - 1) \o pending[count].chunk

\* C30: when each chunk of a file has been posted once, in any order and interleaving,
\* exactly one request answers complete = true, with the chunks concatenated in the
\* order of their index, and no request answers 500.
OneRequestCompletesTheFile ==
    (Len(pending) >= 1 /\ \A r \in 1..Len(pending) : pending[r].pc = "answered")
    => /\ Cardinality({k \in 1..Len(uploads) : uploads[k].status = 200 /\ uploads[k].complete}) = 1
       /\ \A k \in 1..Len(uploads) :
              /\ uploads[k].status # 500
              /\ (uploads[k].status = 200 /\ uploads[k].complete)
                 => uploads[k].combinedBuffer = WholeFile(Len(pending))

=========================================================================
